---- MODULE Spec2Model ----
(***************************************************************************)
(* FB Ads Explorer (adAnalytics): the SQLite collection store, the field   *)
(* normalizer and the Streamlit script run of src/logic.py, src/ui.py and  *)
(* src/app.py as state machines.                                           *)
(*                                                                         *)
(* Python values are tagged records: [ty |-> "none"], [ty |-> "bool", b],  *)
(* [ty |-> "int", n], [ty |-> "str", s], [ty |-> "list", xs] and           *)
(* [ty |-> "dict", d] where d is a function from the present keys to       *)
(* values.  SQLite values are [ty |-> "null"], [ty |-> "integer", n],      *)
(* [ty |-> "text", s] and, for the raw_json column, [ty |-> "text",        *)
(* toks] holding the JSON text as its sequence of lexical tokens.          *)
(***************************************************************************)
EXTENDS Integers, Sequences, FiniteSets, TLC

VARIABLES
    tables,     \* names of the tables that exist in the database file ads.db
    rows,       \* table name -> its rows in rowid order
    seq,        \* table name -> sqlite_sequence (largest id ever handed out)
    clock,      \* CURRENT_TIMESTAMP of the database host, in whole seconds
    pc,         \* process -> how many CREATE TABLE statements its init_db has run
    ret,        \* what the last database call returned or raised
    inItem,     \* the raw record handed to the field normalizer
    nowTick,    \* datetime.now(timezone.utc), in ticks
    out,        \* the normalizer function last called and what it returned or raised
    session,    \* st.session_state of the browser session: key -> value
    screen,     \* what the last run of app.py drew
    cache,      \* st.cache_data of run_apify_scrape: arguments -> returned list
    apify       \* whether the apify_client package can be imported

storeVars == <<tables, rows, seq, clock, pc, ret>>
normVars == <<inItem, nowTick, out>>
appVars == <<session, screen, cache, apify>>
vars == <<storeVars, normVars, appVars>>

(***************************************************************************)
(* Bounds of the model.                                                    *)
(***************************************************************************)
MaxRows == 2
MaxClock == 2
Now0 == 6

(***************************************************************************)
(* Python and SQLite values.                                               *)
(***************************************************************************)
None == [ty |-> "none"]
PyBool(b) == [ty |-> "bool", b |-> b]
PyInt(n) == [ty |-> "int", n |-> n]
PyStr(s) == [ty |-> "str", s |-> s]
PyList(xs) == [ty |-> "list", xs |-> xs]
PyDict(d) == [ty |-> "dict", d |-> d]
EmptyMap == [k \in {} |-> None]
PyTrue == PyBool(TRUE)
PyFalse == PyBool(FALSE)

SqlNull == [ty |-> "null"]
SqlInteger(n) == [ty |-> "integer", n |-> n]
SqlText(s) == [ty |-> "text", s |-> s]
SqlJsonText(toks) == [ty |-> "text", toks |-> toks]

\* dict.get(key): the value, or None when the key is absent
Get(d, k) == IF k \in DOMAIN d THEN d[k] ELSE None

\* bool(v): Python truthiness
Truthy(v) ==
    CASE v.ty = "none" -> FALSE
      [] v.ty = "bool" -> v.b
      [] v.ty = "int" -> v.n # 0
      [] v.ty = "str" -> IF "s" \in DOMAIN v THEN v.s # "" ELSE TRUE
      [] v.ty = "list" -> Len(v.xs) > 0
      [] v.ty = "dict" -> DOMAIN v.d # {}
      [] OTHER -> TRUE

\* a or b
PyOr(a, b) == IF Truthy(a) THEN a ELSE b

(***************************************************************************)
(* TEAM_TABLES and the schema.                                             *)
(***************************************************************************)
TEAM_TABLES == <<"team1", "team2", "team3">>
TeamSet == {TEAM_TABLES[i] : i \in 1..Len(TEAM_TABLES)}

\* the curated columns of SCHEMA_SQL, in the order of db_insert_team's cols
CuratedCols ==
    <<"ad_archive_id", "categories", "collation_count", "collation_id",
      "start_date", "end_date", "entity_type", "is_active",
      "page_id", "page_name", "cta_text", "cta_type",
      "link_url", "page_entity_type", "page_profile_picture_url",
      "page_profile_uri", "state_media_run_label", "total_active_time",
      "original_image_url">>
CuratedSet == {CuratedCols[i] : i \in 1..Len(CuratedCols)}
IntegerCols == {"is_active", "total_active_time"}
AllCols == {"id", "saved_at", "raw_json"} \cup CuratedSet

(***************************************************************************)
(* json.dumps(raw_item, ensure_ascii=False) and json.loads(raw): the JSON  *)
(* text is its sequence of tokens.  Python's None/True/False are written   *)
(* null/true/false; a text that is not JSON makes json.loads raise.        *)
(***************************************************************************)
Tok(t) == [t |-> t]
TokStr(s) == [t |-> "str", s |-> s]
TokNum(n) == [t |-> "num", n |-> n]

RECURSIVE SetToSeq(_)
SetToSeq(S) ==
    IF S = {} THEN <<>>
    ELSE LET x == CHOOSE y \in S : TRUE IN <<x>> \o SetToSeq(S \ {x})

RECURSIVE JsonDumps(_)
RECURSIVE DumpElems(_, _)
RECURSIVE DumpMembers(_, _)
DumpElems(xs, i) ==
    IF i > Len(xs) THEN <<>>
    ELSE (IF i > 1 THEN <<Tok(",")>> ELSE <<>>) \o JsonDumps(xs[i]) \o DumpElems(xs, i + 1)
DumpMembers(d, ks) ==
    IF ks = <<>> THEN <<>>
    ELSE <<TokStr(Head(ks)), Tok(":")>> \o JsonDumps(d[Head(ks)])
         \o (IF Len(ks) > 1 THEN <<Tok(",")>> ELSE <<>>) \o DumpMembers(d, Tail(ks))
JsonDumps(v) ==
    CASE v.ty = "none" -> <<Tok("null")>>
      [] v.ty = "bool" -> <<Tok(IF v.b THEN "true" ELSE "false")>>
      [] v.ty = "int" -> <<TokNum(v.n)>>
      [] v.ty = "str" -> <<TokStr(v.s)>>
      [] v.ty = "list" -> <<Tok("[")>> \o DumpElems(v.xs, 1) \o <<Tok("]")>>
      [] v.ty = "dict" -> <<Tok("{")>> \o DumpMembers(v.d, SetToSeq(DOMAIN v.d)) \o <<Tok("}")>>

ParseFail == [ok |-> FALSE, val |-> None, pos |-> 0]
ParseOk(v, p) == [ok |-> TRUE, val |-> v, pos |-> p]
TokIs(toks, i, t) == i <= Len(toks) /\ toks[i].t = t
MapPut(d, k, v) == [x \in DOMAIN d \cup {k} |-> IF x = k THEN v ELSE d[x]]

RECURSIVE ParseValue(_, _)
RECURSIVE ParseElems(_, _, _)
RECURSIVE ParseMembers(_, _, _)
ParseElems(toks, i, acc) ==
    LET r == ParseValue(toks, i) IN
    IF ~r.ok THEN ParseFail
    ELSE IF TokIs(toks, r.pos, ",") THEN ParseElems(toks, r.pos + 1, Append(acc, r.val))
    ELSE IF TokIs(toks, r.pos, "]") THEN ParseOk(PyList(Append(acc, r.val)), r.pos + 1)
    ELSE ParseFail
ParseMembers(toks, i, acc) ==
    IF ~(TokIs(toks, i, "str") /\ TokIs(toks, i + 1, ":")) THEN ParseFail
    ELSE LET r == ParseValue(toks, i + 2) IN
         IF ~r.ok THEN ParseFail
         ELSE IF TokIs(toks, r.pos, ",")
              THEN ParseMembers(toks, r.pos + 1, MapPut(acc, toks[i].s, r.val))
         ELSE IF TokIs(toks, r.pos, "}")
              THEN ParseOk(PyDict(MapPut(acc, toks[i].s, r.val)), r.pos + 1)
         ELSE ParseFail
ParseValue(toks, i) ==
    IF i > Len(toks) THEN ParseFail
    ELSE CASE toks[i].t = "null" -> ParseOk(None, i + 1)
           [] toks[i].t = "true" -> ParseOk(PyTrue, i + 1)
           [] toks[i].t = "false" -> ParseOk(PyFalse, i + 1)
           [] toks[i].t = "num" -> ParseOk(PyInt(toks[i].n), i + 1)
           [] toks[i].t = "str" -> ParseOk(PyStr(toks[i].s), i + 1)
           [] toks[i].t = "[" ->
                IF TokIs(toks, i + 1, "]") THEN ParseOk(PyList(<<>>), i + 2)
                ELSE ParseElems(toks, i + 1, <<>>)
           [] toks[i].t = "{" ->
                IF TokIs(toks, i + 1, "}") THEN ParseOk(PyDict(EmptyMap), i + 2)
                ELSE ParseMembers(toks, i + 1, EmptyMap)
           [] OTHER -> ParseFail

\* json.loads: [ok |-> FALSE] stands for the exception it raises
JsonLoads(toks) ==
    LET r == ParseValue(toks, 1) IN
    IF r.ok /\ r.pos = Len(toks) + 1 THEN [ok |-> TRUE, val |-> r.val]
    ELSE [ok |-> FALSE, val |-> None]

(***************************************************************************)
(* Text that the code takes apart (country code, keyword, token) is a      *)
(* sequence of one-character strings.                                      *)
(***************************************************************************)
Whitespace == {" ", "\t", "\n"}
RECURSIVE LStrip(_)
LStrip(cs) == IF cs # <<>> /\ Head(cs) \in Whitespace THEN LStrip(Tail(cs)) ELSE cs
RECURSIVE RStrip(_)
RStrip(cs) ==
    IF cs # <<>> /\ cs[Len(cs)] \in Whitespace THEN RStrip(SubSeq(cs, 1, Len(cs) - 1)) ELSE cs
\* str.strip()
Strip(cs) == RStrip(LStrip(cs))

UpperChar(c) ==
    CASE c = "u" -> "U" [] c = "s" -> "S" [] c = "i" -> "I" [] c = "n" -> "N"
      [] c = "g" -> "G" [] c = "b" -> "B" [] OTHER -> c
\* str.upper()
Upper(cs) == [i \in 1..Len(cs) |-> UpperChar(cs[i])]

\* urllib.parse.quote_plus: letters, digits and _.-~ stay, a space becomes +,
\* every other character becomes %XX
SafeChars == {"a", "b", "c", "s", "h", "o", "e", "r", "d", "_", ".", "-", "~", "1", "2"}
QuotePlusChar(c) ==
    CASE c \in SafeChars -> <<c>>
      [] c = " " -> <<"+">>
      [] c = "&" -> <<"%", "2", "6">>
      [] c = "=" -> <<"%", "3", "D">>
      [] c = "+" -> <<"%", "2", "B">>
      [] c = "%" -> <<"%", "2", "5">>
      [] c = "?" -> <<"%", "3", "F">>
      [] c = "#" -> <<"%", "2", "3">>
      [] c = "/" -> <<"%", "2", "F">>
      [] OTHER -> <<"%", "2", "2">>
\* mutant: the keyword goes into the URL as it is
quote_plus_Raw(cs) == cs
RECURSIVE quote_plus(_)
quote_plus(cs) == IF cs = <<>> THEN <<>> ELSE QuotePlusChar(Head(cs)) \o quote_plus(Tail(cs))

(***************************************************************************)
(* Token handling and the URL builder (logic.py:82-110).  A URL is the     *)
(* sequence of its pieces: the separators ? & = stand alone, the inserted  *)
(* tokens are one piece each, country and keyword contribute a piece per   *)
(* character.                                                              *)
(***************************************************************************)
\* mutant: the environment variable is asked before the secret
resolve_apify_token_EnvFirst(sidebar_value, secret, env) ==
    IF sidebar_value # None /\ sidebar_value.s # <<>> /\ Strip(sidebar_value.s) # <<>>
    THEN Strip(sidebar_value.s)
    ELSE IF env # None /\ env.s # <<>> THEN env.s
    ELSE IF secret # None /\ secret.s # <<>> THEN secret.s
    ELSE <<>>
\* resolve_apify_token; secret is st.secrets["APIFY_TOKEN"] (None when it is
\* not configured), env is os.getenv("APIFY_TOKEN").  The three values are
\* None or a str whose s is its characters; the result is the characters of
\* the returned str
resolve_apify_token(sidebar_value, secret, env) ==
    IF sidebar_value # None /\ sidebar_value.s # <<>> /\ Strip(sidebar_value.s) # <<>>
    THEN Strip(sidebar_value.s)
    ELSE IF secret # None /\ secret.s # <<>> THEN secret.s
    ELSE IF env # None /\ env.s # <<>> THEN env.s
    ELSE <<>>

build_fb_ads_library_url(country, keyword, ad_type, active_status, search_mode) ==
    <<"https://www.facebook.com/ads/library/", "?",
      "active_status", "=", active_status, "&",
      "ad_type", "=", ad_type, "&",
      "country", "=">> \o Upper(Strip(country)) \o
    <<"&", "is_targeted_country", "=", "false", "&",
      "media_type", "=", "all", "&",
      "q", "=">> \o quote_plus(Strip(keyword)) \o
    <<"&", "search_type", "=", search_mode>>

(***************************************************************************)
(* Dates (logic.py, DATE HELPERS).  Time is counted in ticks, TicksPerDay  *)
(* to the day, from the epoch; an epoch number counts ticks.  A string     *)
(* that is a date or a number is held by what it spells:                   *)
(*   [ty |-> "str", form |-> "digits", n]    the decimal digits of n       *)
(*   [ty |-> "str", form |-> f, t, off]      wall time t, written in       *)
(*        format f, with UTC offset off when f carries %z                  *)
(* and any other text is [ty |-> "str", s].                                *)
(***************************************************************************)
TicksPerDay == 2
MaxTimestamp == 40

DigitStr(n) == [ty |-> "str", form |-> "digits", n |-> n]
DateStr(form, t, off) == [ty |-> "str", form |-> form, t |-> t, off |-> off]
\* the formats parse_date_maybe tries, in its order
DateFormats == <<"%Y-%m-%d", "%Y-%m-%dT%H:%M:%S%z", "%Y-%m-%dT%H:%M:%S.%f%z",
                 "%Y-%m-%dT%H:%M:%S", "%Y-%m-%d %H:%M:%S">>
AwareFormats == {"%Y-%m-%dT%H:%M:%S%z", "%Y-%m-%dT%H:%M:%S.%f%z"}

\* datetime values: naive (no tzinfo) or aware; an aware one is the instant t - off
NoDate == [kind |-> "none"]
Naive(t) == [kind |-> "naive", t |-> t, off |-> 0]
Aware(t, off) == [kind |-> "aware", t |-> t, off |-> off]
Instant(dt) == dt.t - dt.off
\* floor division by the day (Python's //)
DayOf(t) == IF t >= 0 THEN t \div TicksPerDay ELSE -((-t + TicksPerDay - 1) \div TicksPerDay)

\* str(s).isdigit() and int(s)
IsDigitText(s) ==
    \/ s.ty = "int" /\ s.n >= 0
    \/ s.ty = "str" /\ "form" \in DOMAIN s /\ s.form = "digits"
\* datetime.fromtimestamp(n, tz=utc) raises beyond the year 9999
FromTimestampRaises(n) == n > MaxTimestamp

\* datetime.strptime(str(s), fmt) succeeds
Strptime(s, fmt) == s.ty = "str" /\ "form" \in DOMAIN s /\ s.form = fmt

RECURSIVE TryFormats(_, _)
TryFormats(s, i) ==
    IF i > Len(DateFormats) THEN NoDate
    ELSE IF Strptime(s, DateFormats[i])
         THEN IF DateFormats[i] \in AwareFormats THEN Aware(s.t, s.off) ELSE Naive(s.t)
         ELSE TryFormats(s, i + 1)

parse_date_maybe(s) ==
    IF ~Truthy(s) THEN NoDate
    ELSE IF TryFormats(s, 1) # NoDate THEN TryFormats(s, 1)
    ELSE IF IsDigitText(s) /\ ~FromTimestampRaises(s.n) THEN Aware(s.n, 0)
    ELSE NoDate

\* a call's outcome: the value returned, or the exception raised
Returned(v) == [raised |-> FALSE, val |-> v]
Raised(exc) == [raised |-> TRUE, exc |-> exc]

\* mutant: delta.days without max(..., 0)
compute_running_days_NoMax(item, now) ==
    LET start == PyOr(Get(item, "startDate"), Get(item, "start_date"))
        start_dt == parse_date_maybe(start)
    IN  IF start_dt = NoDate THEN Returned(None)
        ELSE Returned(PyInt(DayOf(now - Instant(start_dt))))
compute_running_days(item, now) ==
    LET start == PyOr(Get(item, "startDate"), Get(item, "start_date"))
        start_dt == parse_date_maybe(start)
    IN  IF start_dt = NoDate THEN Returned(None)
        ELSE LET days == DayOf(now - Instant(start_dt)) IN
             Returned(PyInt(IF days > 0 THEN days ELSE 0))

\* str(v) and str.capitalize() on the texts the samples use
StatusKeys == <<"activeStatus", "status", "adStatus", "active_status">>
StrOf(v) ==
    CASE v.ty = "str" /\ "s" \in DOMAIN v -> v.s
      [] v.ty = "bool" -> IF v.b THEN "True" ELSE "False"
      [] v.ty = "int" -> ToString(v.n)
      [] v.ty = "none" -> "None"
      [] OTHER -> "?"
Capitalize(s) ==
    CASE s = "paused" -> "Paused"
      [] s = "ACTIVE" -> "Active"
      [] s = "inactive" -> "Inactive"
      [] s = "ended" -> "Ended"
      [] OTHER -> s

RECURSIVE FirstStatus(_, _)
FirstStatus(item, i) ==
    IF i > Len(StatusKeys) THEN None
    ELSE IF Get(item, StatusKeys[i]) # None THEN Get(item, StatusKeys[i])
    ELSE FirstStatus(item, i + 1)

\* end_dt < datetime.now(timezone.utc): Python refuses to compare a naive
\* datetime with an aware one
detect_status(item, now) ==
    IF FirstStatus(item, 1) # None
    THEN Returned(PyStr(Capitalize(StrOf(FirstStatus(item, 1)))))
    ELSE IF Get(item, "is_active") = PyFalse THEN Returned(PyStr("Inactive"))
    ELSE LET end == PyOr(Get(item, "endDate"), Get(item, "end_date"))
             end_dt == parse_date_maybe(end)
         IN  IF end_dt = NoDate THEN Returned(PyStr("Active"))
             ELSE IF end_dt.kind = "naive" THEN Raised("TypeError")
             ELSE IF Instant(end_dt) < now THEN Returned(PyStr("Inactive"))
             ELSE Returned(PyStr("Active"))

(***************************************************************************)
(* Snapshot and media helpers (logic.py, SNAPSHOT / MEDIA HELPERS).        *)
(***************************************************************************)
\* json.loads of a Python string: only a string holding JSON text decodes
LoadsStr(v) == IF "toks" \in DOMAIN v THEN JsonLoads(v.toks) ELSE [ok |-> FALSE, val |-> None]

_get_snapshot_dict(item) ==
    LET snap == Get(item, "snapshot")
        decoded == IF snap.ty = "str"
                   THEN (IF LoadsStr(snap).ok THEN LoadsStr(snap).val ELSE PyDict(EmptyMap))
                   ELSE snap
    IN  IF decoded.ty = "dict" THEN decoded.d ELSE EmptyMap

ImageUrlKeys == <<"original_image_url", "original_picture_url", "original_picture", "url", "src">>
ImgKeys == <<"imageUrl", "image_url", "thumbnailUrl", "thumbnail_url", "image">>
VidKeys == <<"videoUrl", "video_url", "video">>

\* the first truthy d.get(k) over the keys in order, or None
RECURSIVE FirstTruthy(_, _, _)
FirstTruthy(d, keys, i) ==
    IF i > Len(keys) THEN None
    ELSE IF Truthy(Get(d, keys[i])) THEN Get(d, keys[i])
    ELSE FirstTruthy(d, keys, i + 1)

RECURSIVE ScanImages(_, _)
ScanImages(imgs, i) ==
    IF i > Len(imgs) THEN None
    ELSE IF imgs[i].ty = "dict" /\ FirstTruthy(imgs[i].d, ImageUrlKeys, 1) # None
         THEN FirstTruthy(imgs[i].d, ImageUrlKeys, 1)
    ELSE ScanImages(imgs, i + 1)

get_original_image_url(item) ==
    LET imgs == Get(_get_snapshot_dict(item), "images") IN
    ScanImages(IF imgs.ty = "dict" THEN <<imgs>>
               ELSE IF imgs.ty = "list" THEN imgs.xs ELSE <<>>, 1)

Pair(kind, url) == <<kind, url>>

RECURSIVE ScanCreatives(_, _)
ScanCreatives(cs, i) ==
    IF i > Len(cs) THEN <<None, None>>
    ELSE IF cs[i].ty # "dict" THEN ScanCreatives(cs, i + 1)
    ELSE IF FirstTruthy(cs[i].d, ImgKeys, 1) # None
         THEN Pair(PyStr("image"), FirstTruthy(cs[i].d, ImgKeys, 1))
    ELSE IF FirstTruthy(cs[i].d, VidKeys, 1) # None
         THEN Pair(PyStr("video"), FirstTruthy(cs[i].d, VidKeys, 1))
    ELSE ScanCreatives(cs, i + 1)

\* mutant: the direct video keys are probed before any image source
extract_primary_media_VideoFirst(item) ==
    LET oi == get_original_image_url(item)
        creatives0 == PyOr(PyOr(Get(item, "creatives"), Get(item, "media")), PyList(<<>>))
        creatives == IF creatives0.ty = "dict" THEN PyList(<<creatives0>>) ELSE creatives0
        fromCreatives == IF creatives.ty = "list" THEN ScanCreatives(creatives.xs, 1)
                         ELSE <<None, None>>
        media_urls == PyOr(Get(item, "mediaUrls"), Get(item, "media_urls"))
    IN  IF FirstTruthy(item, VidKeys, 1) # None
        THEN Pair(PyStr("video"), FirstTruthy(item, VidKeys, 1))
        ELSE IF Truthy(oi) THEN Pair(PyStr("image"), oi)
        ELSE IF FirstTruthy(item, ImgKeys, 1) # None
             THEN Pair(PyStr("image"), FirstTruthy(item, ImgKeys, 1))
        ELSE IF fromCreatives # <<None, None>> THEN fromCreatives
        ELSE IF media_urls.ty = "list" /\ Truthy(media_urls)
             THEN Pair(PyStr("image"), media_urls.xs[1])
        ELSE <<None, None>>
extract_primary_media(item) ==
    LET oi == get_original_image_url(item)
        creatives0 == PyOr(PyOr(Get(item, "creatives"), Get(item, "media")), PyList(<<>>))
        creatives == IF creatives0.ty = "dict" THEN PyList(<<creatives0>>) ELSE creatives0
        fromCreatives == IF creatives.ty = "list" THEN ScanCreatives(creatives.xs, 1)
                         ELSE <<None, None>>
        media_urls == PyOr(Get(item, "mediaUrls"), Get(item, "media_urls"))
    IN  IF Truthy(oi) THEN Pair(PyStr("image"), oi)
        ELSE IF FirstTruthy(item, ImgKeys, 1) # None
             THEN Pair(PyStr("image"), FirstTruthy(item, ImgKeys, 1))
        ELSE IF FirstTruthy(item, VidKeys, 1) # None
             THEN Pair(PyStr("video"), FirstTruthy(item, VidKeys, 1))
        ELSE IF fromCreatives # <<None, None>> THEN fromCreatives
        ELSE IF media_urls.ty = "list" /\ Truthy(media_urls)
             THEN Pair(PyStr("image"), media_urls.xs[1])
        ELSE <<None, None>>

(***************************************************************************)
(* Curated field extraction (logic.py, extract_selected_fields).           *)
(***************************************************************************)
\* cards / page_categories: the first element of a non-empty list when it is
\* a mapping, the value itself when it is a mapping, else None
FirstMapping(v) ==
    IF v.ty = "list" /\ Len(v.xs) > 0
    THEN (IF v.xs[1].ty = "dict" THEN v.xs[1] ELSE None)
    ELSE IF v.ty = "dict" THEN v ELSE None

\* card0.get(k) if isinstance(card0, dict) else None
GetIfDict(m, k) == IF m.ty = "dict" THEN Get(m.d, k) ELSE None

\* val in (None, "", 0, "0"), by Python's ==
InNullTuple(val) ==
    \/ val = None
    \/ val = PyStr("")
    \/ val.ty = "int" /\ val.n = 0
    \/ val = PyFalse
    \/ val = DigitStr(0)

IntOf(val) == IF val.ty = "bool" THEN (IF val.b THEN 1 ELSE 0) ELSE val.n
\* date.isoformat(): the text YYYY-MM-DD of day d
IsoDate(d) == DateStr("%Y-%m-%d", d * TicksPerDay, 0)

_coerce_epoch_or_date(val) ==
    IF InNullTuple(val) THEN None
    ELSE IF (val.ty \in {"int", "bool"} \/ IsDigitText(val)) /\ ~FromTimestampRaises(IntOf(val))
         THEN IsoDate(DayOf(IntOf(val)))
    ELSE LET dt == parse_date_maybe(val) IN
         IF dt # NoDate THEN IsoDate(DayOf(dt.t)) ELSE None

RECURSIVE JoinStr(_, _)
JoinStr(xs, i) ==
    IF i > Len(xs) THEN ""
    ELSE (IF i > 1 THEN ", " ELSE "") \o StrOf(xs[i]) \o JoinStr(xs, i + 1)

extract_selected_fields(item) ==
    LET snap == _get_snapshot_dict(item)
        card0 == FirstMapping(Get(snap, "cards"))
        pgcat0 == FirstMapping(Get(snap, "page_categories"))
        link_url == IF ~Truthy(Get(snap, "link_url")) /\ card0.ty = "dict"
                    THEN Get(card0.d, "link_url") ELSE Get(snap, "link_url")
        categories == Get(item, "categories")
    IN  [ad_archive_id |-> PyOr(Get(item, "ad_archive_id"), Get(item, "adId")),
         categories |-> IF categories.ty = "list" THEN PyStr(JoinStr(categories.xs, 1))
                        ELSE categories,
         collation_count |-> Get(item, "collation_count"),
         collation_id |-> Get(item, "collation_id"),
         start_date |-> _coerce_epoch_or_date(PyOr(Get(item, "start_date"), Get(item, "startDate"))),
         end_date |-> _coerce_epoch_or_date(PyOr(Get(item, "end_date"), Get(item, "endDate"))),
         entity_type |-> Get(item, "entity_type"),
         is_active |-> Get(item, "is_active"),
         page_id |-> PyOr(Get(item, "page_id"), Get(item, "pageId")),
         page_name |-> PyOr(Get(item, "page_name"), Get(item, "pageName")),
         cta_text |-> PyOr(GetIfDict(card0, "cta_text"), Get(snap, "cta_text")),
         cta_type |-> PyOr(GetIfDict(card0, "cta_type"), Get(snap, "cta_type")),
         link_url |-> link_url,
         page_entity_type |-> PyOr(GetIfDict(pgcat0, "page_entity_type"),
                                   Get(item, "page_entity_type")),
         page_profile_picture_url |-> PyOr(Get(item, "page_profile_picture_url"),
                                           Get(snap, "page_profile_picture_url")),
         page_profile_uri |-> PyOr(Get(item, "page_profile_uri"), Get(snap, "page_profile_uri")),
         state_media_run_label |-> Get(item, "state_media_run_label"),
         total_active_time |-> Get(item, "total_active_time"),
         original_image_url |-> get_original_image_url(item),
         original_picture_url |-> get_original_image_url(item)]

(***************************************************************************)
(* The collection store (logic.py, DB SCHEMA .. db_fetch_team).            *)
(***************************************************************************)
Procs == {"p1", "p2"}
NTables == Len(TEAM_TABLES)
Ret(op, table, status, rs) == [op |-> op, table |-> table, status |-> status, rows |-> rs]

\* CURRENT_TIMESTAMP: 'YYYY-MM-DD HH:MM:SS' text, ordered as the seconds it names
SqlTimestamp(n) == [ty |-> "text", ts |-> n]

\* SQLite matches a table name without regard to case
SqliteTableName(name) == IF name = "TEAM1" THEN "team1" ELSE name

\* sqlite3's adaptation of a bound Python parameter
Bindable(v) == v.ty \in {"none", "bool", "int", "str"}
BindParam(v) ==
    CASE v.ty = "none" -> SqlNull
      [] v.ty = "bool" -> SqlInteger(IF v.b THEN 1 ELSE 0)
      [] v.ty = "int" -> SqlInteger(v.n)
      [] v.ty = "str" -> IF "s" \in DOMAIN v THEN SqlText(v.s) ELSE [ty |-> "text", str |-> v]

\* column affinity of SCHEMA_SQL: TEXT columns keep integers as their decimal
\* text, INTEGER columns turn a text that is an integer literal into the integer
IntegerLiterals == {0, 1, 5}
Affinity(col, v) ==
    IF col \in IntegerCols
    THEN IF v.ty = "text" /\ "s" \in DOMAIN v /\ \E n \in IntegerLiterals : ToString(n) = v.s
         THEN SqlInteger(CHOOSE n \in IntegerLiterals : ToString(n) = v.s)
         ELSE v
    ELSE IF v.ty = "integer" THEN SqlText(ToString(v.n)) ELSE v

\* mutant: int(bool(...)) without the None test
IsActiveParam_Coerced(ad_fields) ==
    PyInt(IF Truthy(Get(ad_fields, "is_active")) THEN 1 ELSE 0)
\* logic.py:328
IsActiveParam(ad_fields) ==
    IF Get(ad_fields, "is_active") # None
    THEN PyInt(IF Truthy(Get(ad_fields, "is_active")) THEN 1 ELSE 0)
    ELSE None

\* the vals list of db_insert_team, keyed by column
InsertVals(ad_fields) ==
    [c \in CuratedSet |-> IF c = "is_active" THEN IsActiveParam(ad_fields) ELSE Get(ad_fields, c)]

\* mutant: `if raw_item` in place of `if raw_item is not None`
RawJsonParam_Truthy(raw_item) ==
    IF Truthy(raw_item) THEN SqlJsonText(JsonDumps(raw_item)) ELSE SqlNull
RawJsonParam(raw_item) ==
    IF raw_item # None THEN SqlJsonText(JsonDumps(raw_item)) ELSE SqlNull

\* mutant: the name is validated the way SQLite would resolve it
ValidTeamTable_AnyCase(table) == SqliteTableName(table) \in TeamSet
ValidTeamTable(table) == table \in TeamSet

RowId(r) == r["id"].n
MinOf(S) == CHOOSE x \in S : \A y \in S : x <= y
MaxOf(S) == IF S = {} THEN 0 ELSE CHOOSE x \in S : \A y \in S : y <= x
\* INTEGER PRIMARY KEY AUTOINCREMENT: one more than the largest id ever used
NextId(t) == MaxOf({seq[t]} \cup {RowId(rows[t][i]) : i \in 1..Len(rows[t])}) + 1

\* mutant: an upsert keyed by ad_archive_id (INSERT OR REPLACE on a unique key)
InsertRow_Upsert(t, vals, raw_item) ==
    LET new == [c \in AllCols |->
                   CASE c = "id" -> SqlInteger(NextId(t))
                     [] c = "saved_at" -> SqlTimestamp(clock)
                     [] c = "raw_json" -> RawJsonParam(raw_item)
                     [] OTHER -> Affinity(c, BindParam(vals[c]))]
        kept == SelectSeq(rows[t], LAMBDA r : r["ad_archive_id"] # new["ad_archive_id"])
    IN  Append(kept, new)
InsertRow(t, vals, raw_item) ==
    Append(rows[t],
           [c \in AllCols |->
               CASE c = "id" -> SqlInteger(NextId(t))
                 [] c = "saved_at" -> SqlTimestamp(clock)
                 [] c = "raw_json" -> RawJsonParam(raw_item)
                 [] OTHER -> Affinity(c, BindParam(vals[c]))])

\* db_insert_team: what it raises (status) and the database it leaves
db_insert_team(table, ad_fields, raw_item) ==
    LET vals == InsertVals(ad_fields)
        t == SqliteTableName(table)
    IN  IF ~ValidTeamTable(table)
        THEN [status |-> "ValueError", rows |-> rows, seq |-> seq]
        ELSE IF t \notin tables
        THEN [status |-> "OperationalError", rows |-> rows, seq |-> seq]
        ELSE IF \E c \in CuratedSet : ~Bindable(vals[c])
        THEN [status |-> "ProgrammingError", rows |-> rows, seq |-> seq]
        ELSE [status |-> "ok",
              rows |-> [rows EXCEPT ![t] = InsertRow(t, vals, raw_item)],
              seq |-> [seq EXCEPT ![t] = NextId(t)]]

\* sqlite3's conversion of a column value to Python
SqlToPy(v) ==
    CASE v.ty = "null" -> None
      [] v.ty = "integer" -> PyInt(v.n)
      [] v.ty = "text" /\ "s" \in DOMAIN v -> PyStr(v.s)
      [] v.ty = "text" /\ "ts" \in DOMAIN v -> [ty |-> "str", ts |-> v.ts]
      [] v.ty = "text" /\ "toks" \in DOMAIN v -> [ty |-> "str", toks |-> v.toks]
      [] v.ty = "text" /\ "str" \in DOMAIN v -> v.str

\* logic.py:366-371: a non-empty raw_json is decoded; one that json.loads
\* rejects stays the string it was
DecodeRaw(raw) ==
    IF raw # None /\ raw.toks # <<>>
    THEN IF JsonLoads(raw.toks).ok THEN JsonLoads(raw.toks).val ELSE raw
    ELSE raw

RowToDict(r) ==
    [c \in AllCols |-> IF c = "raw_json" THEN DecodeRaw(SqlToPy(r[c])) ELSE SqlToPy(r[c])]

\* ORDER BY saved_at DESC: rows of equal saved_at come in an order SQLite
\* does not define, so every order of them is a possible result
IsPermutation(f, n) == \A i \in 1..n : \E j \in 1..n : f[j] = i
SavedAtDesc(rs, f) ==
    \A i, j \in 1..Len(rs) : i < j => rs[f[i]]["saved_at"].ts >= rs[f[j]]["saved_at"].ts
SelectOrders(rs) ==
    {f \in [1..Len(rs) -> 1..Len(rs)] : IsPermutation(f, Len(rs)) /\ SavedAtDesc(rs, f)}

\* db_fetch_team with the order `f` the SELECT produced
db_fetch_team(table, f) ==
    LET t == SqliteTableName(table) IN
    IF ~ValidTeamTable(table) THEN [status |-> "ValueError", rows |-> <<>>]
    ELSE IF t \notin tables THEN [status |-> "OperationalError", rows |-> <<>>]
    ELSE [status |-> "ok", rows |-> [i \in 1..Len(rows[t]) |-> RowToDict(rows[t][f[i]])]]

\* mutant: CREATE TABLE without IF NOT EXISTS
CreateTable_Plain(t) ==
    [status |-> IF t \in tables THEN "OperationalError" ELSE "ok",
     tables |-> tables \cup {t}, rows |-> rows]
\* one CREATE TABLE IF NOT EXISTS statement of init_db
CreateTableIfNotExists(t) ==
    [status |-> "ok", tables |-> tables \cup {t}, rows |-> rows]

(***************************************************************************)
(* Inputs of the store: collection names, and (ad_fields, raw_item) pairs  *)
(* as _card_save_ui passes them.                                           *)
(***************************************************************************)
TableNames == {"team1", "team3", "team4", "TEAM1"}

RawA ==
    PyDict([ad_archive_id |-> PyStr("a1"), is_active |-> PyTrue,
            total_active_time |-> PyInt(5),
            snapshot |-> PyDict([images |-> PyList(<<PyDict([url |-> PyStr("u1")])>>),
                                 link_url |-> None])])
SaveSamples ==
    { [ad |-> [ad_archive_id |-> PyStr("a1"), is_active |-> PyTrue,
               collation_count |-> PyInt(1), total_active_time |-> PyInt(5),
               original_image_url |-> PyStr("u1")],
       raw |-> RawA],
      [ad |-> [ad_archive_id |-> PyStr("a1"), is_active |-> PyFalse],
       raw |-> PyDict(EmptyMap)],
      [ad |-> [ad_archive_id |-> PyStr("a2"), is_active |-> None],
       raw |-> None],
      [ad |-> EmptyMap, raw |-> PyDict([page_name |-> PyStr("p")])],
      [ad |-> [categories |-> PyDict([x |-> PyInt(1)])], raw |-> RawA] }

\* a row written by an earlier release or another tool: its raw_json is not JSON
LegacyRow ==
    [c \in AllCols |->
        CASE c = "id" -> SqlInteger(1)
          [] c = "saved_at" -> SqlTimestamp(0)
          [] c = "raw_json" -> SqlJsonText(<<Tok("{"), TokStr("bad")>>)
          [] OTHER -> SqlNull]

NoRows == [t \in TeamSet |-> <<>>]
TotalRows == Len(rows["team1"]) + Len(rows["team2"]) + Len(rows["team3"])

\* ads.db is absent on the first start, or is a file an earlier run left
StoreInit ==
    /\ \/ tables = {} /\ rows = NoRows /\ seq = [t \in TeamSet |-> 0]
       \/ /\ tables = TeamSet
          /\ rows = [NoRows EXCEPT !["team1"] = <<LegacyRow>>]
          /\ seq = [t \in TeamSet |-> IF t = "team1" THEN 1 ELSE 0]
    /\ clock = 1
    /\ pc = [p \in Procs |-> 0]
    /\ ret = Ret("none", "", "ok", <<>>)

\* init_db, one CREATE TABLE statement at a time (each is its own transaction)
InitDbStep(p) ==
    /\ pc[p] < NTables
    /\ LET t == TEAM_TABLES[pc[p] + 1]
           r == CreateTableIfNotExists(t)
       IN  /\ tables' = r.tables
           /\ rows' = r.rows
           /\ pc' = [pc EXCEPT ![p] = IF r.status = "ok" THEN pc[p] + 1 ELSE 0]
           /\ ret' = Ret("init_db", t, r.status, <<>>)
    /\ UNCHANGED <<seq, clock, normVars, appVars>>

\* Streamlit runs app.py again on the next interaction: init_db is called again
Rerun(p) ==
    /\ pc[p] = NTables
    /\ pc' = [pc EXCEPT ![p] = 0]
    /\ ret' = Ret("rerun", "", "ok", <<>>)
    /\ UNCHANGED <<tables, rows, seq, clock, normVars, appVars>>

DbInsertTeam(p, table, ad_fields, raw_item) ==
    /\ pc[p] = NTables
    /\ TotalRows < MaxRows
    /\ LET r == db_insert_team(table, ad_fields, raw_item) IN
           /\ rows' = r.rows
           /\ seq' = r.seq
           /\ ret' = Ret("insert", table, r.status, <<>>)
    /\ UNCHANGED <<tables, clock, pc, normVars, appVars>>

DbFetchTeam(p, table) ==
    /\ pc[p] = NTables
    /\ \E f \in (IF SqliteTableName(table) \in TeamSet
                 THEN SelectOrders(rows[SqliteTableName(table)]) ELSE {<<>>}) :
           LET r == db_fetch_team(table, f) IN
           ret' = Ret("fetch", table, r.status, r.rows)
    /\ UNCHANGED <<tables, rows, seq, clock, pc, normVars, appVars>>

\* a second passes on the database host
Tick ==
    /\ clock < MaxClock
    /\ clock' = clock + 1
    /\ ret' = Ret("tick", "", "ok", <<>>)
    /\ UNCHANGED <<tables, rows, seq, pc, normVars, appVars>>

NoOut == [fn |-> "none", res |-> Returned(None)]
NormIdle == inItem = EmptyMap /\ nowTick = Now0 /\ out = NoOut

\* no browser session has run app.py yet
Msg(text, exc, n) == [text |-> text, exc |-> exc, n |-> n]
NoScreen == [mode |-> "", alert |-> "none", msg |-> Msg("", "", 0), bar |-> None, cards |-> <<>>,
             saveUi |-> {}, detail |-> None, debug |-> None]
AppIdle == session = EmptyMap /\ screen = NoScreen /\ cache = EmptyMap /\ apify = TRUE

Init == StoreInit /\ NormIdle /\ AppIdle

Next ==
    \/ InitDbStep("p1")
    \/ \E table \in TableNames, x \in SaveSamples : DbInsertTeam("p1", table, x.ad, x.raw)
    \/ \E table \in TableNames : DbFetchTeam("p1", table)
    \/ Tick

Spec == Init /\ [][Next]_vars

\* several process instances on the same ads.db, each running app.py over and over
InitNext ==
    \E p \in Procs :
        \/ InitDbStep(p)
        \/ Rerun(p)
        \/ \E x \in {y \in SaveSamples : y.raw = None} : DbInsertTeam(p, "team1", x.ad, x.raw)

SpecInit == Init /\ [][InitNext]_vars

(***************************************************************************)
(* The field normalizer applied to raw records.  A raw record is a mapping *)
(* with any subset of the keys; the samples vary the keys each function    *)
(* reads.                                                                  *)
(***************************************************************************)
Absent == [ty |-> "absent"]
Opt(k, v) == IF v = Absent THEN EmptyMap ELSE (k :> v)

Past == Now0 - 2 * TicksPerDay
Future == Now0 + 2 * TicksPerDay
DayStart(t) == DayOf(t) * TicksPerDay

\* date values: epoch integer, numeric string, timezone-aware string,
\* timezone-less string, garbage
DateVals ==
    { PyInt(0), PyInt(Past), PyInt(Future), PyInt(MaxTimestamp + 1), DigitStr(Past),
      DateStr("%Y-%m-%d", DayStart(Past), 0), DateStr("%Y-%m-%d", DayStart(Future), 0),
      DateStr("%Y-%m-%dT%H:%M:%S%z", Past, 1), DateStr("%Y-%m-%dT%H:%M:%S%z", Future, -1),
      DateStr("%Y-%m-%dT%H:%M:%S.%f%z", Past, 0),
      DateStr("%Y-%m-%dT%H:%M:%S", Past, 0), DateStr("%Y-%m-%d %H:%M:%S", Future, 0),
      PyStr("not-a-date"), PyStr("") }

StatusItems ==
    { Opt("activeStatus", a) @@ Opt("status", b) @@ Opt("adStatus", c) @@ Opt("active_status", d)
        @@ Opt("is_active", ia) @@ Opt(ek, ev) :
        a \in {Absent, None, PyStr("paused")}, b \in {Absent, None, PyStr("ACTIVE")},
        c \in {Absent, PyStr("inactive")}, d \in {Absent, PyStr("ended")},
        ia \in {Absent, None, PyTrue, PyFalse},
        ek \in {"endDate", "end_date"}, ev \in DateVals \cup {Absent} }

StartItems ==
    { Opt("startDate", v) @@ Opt("start_date", w) :
        v \in DateVals \cup {Absent, PyInt(Now0), PyInt(Now0 - TicksPerDay)},
        w \in {Absent, PyInt(Past), DateStr("%Y-%m-%d", DayStart(Future), 0)} }

Img(k, u) == PyDict(k :> PyStr(u))
Snapshots ==
    { Absent, PyStr("garbage"), PyList(<<>>) }
    \cup { PyDict(Opt("images", im)) :
             im \in { Absent, PyList(<<>>), PyList(<<Img("url", "s1")>>),
                      PyList(<<PyDict(EmptyMap), Img("src", "s2")>>),
                      PyList(<<PyStr("x")>>), Img("original_image_url", "s3"),
                      PyStr("garbage") } }
    \cup { [ty |-> "str", toks |-> JsonDumps(PyDict([images |-> Img("original_picture", "s4")]))],
           [ty |-> "str", toks |-> <<Tok("{")>>] }

MediaItems ==
    { Opt("snapshot", sn) @@ Opt("imageUrl", i1) @@ Opt("thumbnail_url", i2)
        @@ Opt("videoUrl", v1) @@ Opt("creatives", cr) @@ Opt("media", me)
        @@ Opt("mediaUrls", mu) @@ Opt("media_urls", mv) :
        sn \in Snapshots,
        i1 \in {Absent, PyStr(""), PyStr("i1")}, i2 \in {Absent, PyStr("i2")},
        v1 \in {Absent, PyStr("v1")},
        cr \in { Absent, PyList(<<>>), PyList(<<PyDict(EmptyMap), Img("video_url", "cv")>>),
                 PyList(<<PyDict([image |-> PyStr("ci"), video |-> PyStr("cv")])>>),
                 Img("imageUrl", "ci"), PyStr("garbage") },
        me \in {Absent, PyList(<<Img("videoUrl", "mv")>>)},
        mu \in {Absent, PyList(<<>>), PyList(<<PyStr("m1"), PyStr("m2")>>)},
        mv \in {Absent, PyList(<<PyStr("m3")>>)} }

\* records whose snapshot has cards and page_categories as a list, a single
\* mapping or something else
Card(t) == PyDict("cta_text" :> PyStr(t))
Cat(t) == PyDict("page_entity_type" :> PyStr(t))
CardItems ==
    { Opt("snapshot", PyDict(Opt("cards", ca) @@ Opt("page_categories", pg) @@ Opt("cta_text", ct)))
        @@ Opt("page_entity_type", pe) :
        ca \in { Absent, PyList(<<>>), PyList(<<Card("c1"), Card("c2")>>),
                 PyList(<<PyDict(EmptyMap), Card("c2")>>), PyList(<<PyStr("x"), Card("c2")>>),
                 Card("c3"), PyStr("garbage") },
        pg \in { Absent, PyList(<<PyDict(EmptyMap), Cat("p2")>>), PyList(<<Cat("p1"), Cat("p2")>>),
                 Cat("p3"), PyStr("garbage") },
        ct \in {Absent, PyStr("sc")}, pe \in {Absent, PyStr("ip")} }

\* records that carry both spellings of the end date
AliasItems ==
    { [endDate |-> a, end_date |-> b] :
        a \in {PyInt(Past), PyInt(Future)}, b \in {PyInt(Past), PyInt(Future), PyStr("")} }

RawItems ==
    StatusItems \cup StartItems \cup MediaItems \cup CardItems \cup AliasItems \cup {EmptyMap, RawA.d}

NormInit ==
    /\ inItem \in RawItems
    /\ nowTick = Now0
    /\ out = NoOut
    /\ tables = {} /\ rows = NoRows /\ seq = [t \in TeamSet |-> 0]
    /\ clock = 1 /\ pc = [p \in Procs |-> 0] /\ ret = Ret("none", "", "ok", <<>>)
    /\ AppIdle

CallDetectStatus ==
    /\ out' = [fn |-> "detect_status", res |-> detect_status(inItem, nowTick)]
    /\ UNCHANGED <<inItem, nowTick, storeVars, appVars>>

CallComputeRunningDays ==
    /\ out' = [fn |-> "compute_running_days", res |-> compute_running_days(inItem, nowTick)]
    /\ UNCHANGED <<inItem, nowTick, storeVars, appVars>>

CallExtractPrimaryMedia ==
    /\ out' = [fn |-> "extract_primary_media", res |-> Returned(extract_primary_media(inItem))]
    /\ UNCHANGED <<inItem, nowTick, storeVars, appVars>>

CallExtractSelectedFields ==
    /\ out' = [fn |-> "extract_selected_fields", res |-> Returned(extract_selected_fields(inItem))]
    /\ UNCHANGED <<inItem, nowTick, storeVars, appVars>>

NormNext ==
    \/ CallDetectStatus
    \/ CallComputeRunningDays
    \/ CallExtractPrimaryMedia
    \/ CallExtractSelectedFields

SpecNorm == NormInit /\ [][NormNext]_vars

(***************************************************************************)
(* The Streamlit application (app.py, ui.py).  Every interaction of the    *)
(* browser session runs app.py from its first line to its last, or to a    *)
(* st.stop(); st.session_state survives from run to run.  A run is one     *)
(* action: its input is the widget that triggered it and the values the    *)
(* sidebar widgets hold.                                                   *)
(***************************************************************************)
SEARCH == "Search Ads"
SAVED == "Saved Ads"

SearchStateKeys == {"selected_ad_idx", "save_pending_idx"}
SavedStateKeys ==
    {"saved_selected_idx_team1", "saved_selected_idx_team2", "saved_selected_idx_team3"}
\* st.session_state.pop(k, None) for each k of ks
Pop(ss, ks) == [k \in DOMAIN ss \ ks |-> ss[k]]

\* app.py:74-82, clearing the selections of the mode that is left
ClearCrossMode(ss, mode) ==
    LET last == Get(ss, "_last_mode")
        kept == IF last # None /\ last # PyStr(mode)
                THEN Pop(ss, SearchStateKeys \cup SavedStateKeys) ELSE ss
    IN  MapPut(kept, "_last_mode", PyStr(mode))

CATEGORY_LABEL_TO_ADTYPE ==
    ("All ads" :> "all") @@ ("Issues, elections or politics" :> "issues_elections_politics")
    @@ ("Properties" :> "housing") @@ ("Employment" :> "employment")
    @@ ("Financial products and services" :> "credit")
ACTIVE_STATUS_LABEL_TO_PARAM ==
    ("Active ads" :> "active") @@ ("Inactive ads" :> "inactive") @@ ("All ads" :> "all")
SEARCH_MODE_LABEL_TO_PARAM ==
    ("Broad (any words)" :> "keyword_unordered") @@ ("Exact phrase" :> "keyword_exact")
COMMON_COUNTRIES ==
    ("United States" :> <<"U", "S">>) @@ ("India" :> <<"I", "N">>)
    @@ ("United Kingdom" :> <<"G", "B">>) @@ ("Canada" :> <<"C", "A">>)
    @@ ("Australia" :> <<"A", "U">>) @@ ("Germany" :> <<"D", "E">>)
    @@ ("France" :> <<"F", "R">>) @@ ("Brazil" :> <<"B", "R">>)
    @@ ("Singapore" :> <<"S", "G">>)

Quoted(cs) == cs # <<>> /\ Head(cs) = "\"" /\ cs[Len(cs)] = "\""
\* render_sidebar_search: the filters dict built from the sidebar widgets w
render_sidebar_search(w) ==
    LET custom == w.country_sel \notin DOMAIN COMMON_COUNTRIES
        typed == Upper(Strip(w.country_custom))
        country_code == IF custom THEN (IF typed # <<>> THEN typed ELSE <<"U", "S">>)
                        ELSE COMMON_COUNTRIES[w.country_sel]
        kw_raw == Strip(w.keyword)
        search_mode_param == SEARCH_MODE_LABEL_TO_PARAM[w.match]
    IN  [country_code |-> country_code,
         country_label |-> IF custom THEN country_code ELSE w.country_sel,
         keyword_raw |-> kw_raw,
         keyword_display |-> IF search_mode_param = "keyword_exact" /\ ~Quoted(kw_raw)
                             THEN <<"\"">> \o kw_raw \o <<"\"">> ELSE kw_raw,
         ad_category |-> w.category,
         ad_type_param |-> CATEGORY_LABEL_TO_ADTYPE[w.category],
         active_status_label |-> w.status,
         active_status_param |-> ACTIVE_STATUS_LABEL_TO_PARAM[w.status],
         search_mode_label |-> w.match,
         search_mode_param |-> search_mode_param,
         count |-> w.count]

\* the deployment configures no APIFY_TOKEN secret and no APIFY_TOKEN variable
SecretToken == None
EnvToken == None

\* run_apify_scrape behind st.cache_data: a call with cached arguments returns
\* the cached list; `upstream` is what the Apify actor does when it is called
run_apify_scrape(token, url, count, active_status, upstream) ==
    LET key == <<token, url, count, active_status>> IN
    IF key \in DOMAIN cache THEN [res |-> Returned(cache[key]), cache |-> cache]
    ELSE IF ~apify THEN [res |-> Raised("RuntimeError"), cache |-> cache]
    ELSE IF token = <<>> THEN [res |-> Raised("ValueError"), cache |-> cache]
    ELSE IF upstream.kind = "raise" THEN [res |-> Raised("ApifyError"), cache |-> cache]
    ELSE LET items == IF upstream.kind = "no_dataset" THEN PyList(<<>>)
                      ELSE PyList(upstream.items)
         IN  [res |-> Returned(items), cache |-> MapPut(cache, key, items)]

\* render_ad_card raises when one of the normalizer calls at its top raises
CardRaises(item) ==
    detect_status(item.d, nowTick).raised \/ compute_running_days(item.d, nowTick).raised

NoClick == [kind |-> "none", idx |-> 0]
\* the cards are drawn in order: how many are drawn before one raises
CardsDrawn(ads_items) ==
    MinOf({i \in 1..Len(ads_items) : CardRaises(ads_items[i])} \cup {Len(ads_items) + 1}) - 1

\* _card_save_ui when "Confirm save" was clicked: the insert it asks for and
\* the session state it leaves
_card_save_ui(ss, table, ad_fields, raw_item) ==
    [session |-> Pop(ss, {"save_pending_idx"}),
     write |-> [table |-> table, ad_fields |-> ad_fields, raw_item |-> raw_item]]
\* no "Confirm save" button was clicked in this run
NoSave(ss) == [session |-> ss, write |-> None]
\* the card whose "Confirm save" was clicked draws its save box only while it
\* is the pending one
ConfirmOn(ss, ev, ads_items, shown) ==
    IF ev.kind = "confirm" /\ ev.idx < shown /\ Get(ss, "save_pending_idx") = PyInt(ev.idx)
    THEN _card_save_ui(ss, ev.table, extract_selected_fields(ads_items[ev.idx + 1].d),
                       ads_items[ev.idx + 1])
    ELSE NoSave(ss)

\* st.session_state after the button click of this run, cf being what a
\* "Confirm save" did
AfterClick(ss, ev, shown, cf) ==
    IF ev.kind = "detail" /\ ev.idx < shown THEN MapPut(ss, "selected_ad_idx", PyInt(ev.idx))
    ELSE IF ev.kind = "save" /\ ev.idx < shown THEN MapPut(ss, "save_pending_idx", PyInt(ev.idx))
    ELSE cf.session

\* the page render_main_search_page draws from its filter bar on, `shown`
\* cards being drawn; ss1 is st.session_state after the click of this run
SearchPage(ss, ss1, ev, ads_items, shown, write) ==
    LET params == Get(ss, "last_query_params")
        n == Len(ads_items)
        hit == ev.kind \in {"detail", "save"} /\ ev.idx < shown
        \* save_pending_idx as card k reads it
        pendingAt(k) == IF hit /\ ev.kind = "save" /\ k >= ev.idx THEN PyInt(ev.idx)
                        ELSE Get(ss, "save_pending_idx")
        sel_idx == Get(ss1, "selected_ad_idx")
    IN  [session |-> ss1,
         write |-> write,
         screen |->
            [mode |-> SEARCH,
             alert |-> IF n = 0 THEN "info" ELSE IF shown < n THEN "exception" ELSE "success",
             msg |-> IF n = 0 THEN Msg("Submit a query from the sidebar to fetch ads.", "", 0)
                     ELSE IF shown < n THEN Msg("", "TypeError", 0)
                     ELSE Msg("Retrieved {len(ads_items)} ads.", "", n),
             bar |-> IF params # None
                     THEN [country_label |-> params.d.country_label,
                           ad_category |-> params.d.ad_category,
                           keyword |-> params.d.keyword_display,
                           active_status_label |-> params.d.active_status_label]
                     ELSE [hint |-> "Set filters in sidebar"],
             cards |-> SubSeq(ads_items, 1, shown),
             saveUi |-> {k \in 0..(shown - 1) : pendingAt(k) = PyInt(k)},
             detail |-> IF shown = n /\ sel_idx # None /\ 0 <= sel_idx.n /\ sel_idx.n < n
                        THEN ads_items[sel_idx.n + 1] ELSE None,
             debug |-> IF shown = n THEN [params |-> params, url |-> Get(ss1, "last_query_url")]
                       ELSE None]]

DrawSearchPageWith(ss, ev, ads_items, shown, cf) ==
    SearchPage(ss, AfterClick(ss, ev, shown, cf), ev, ads_items, shown, cf.write)
\* render_main_search_page from its filter bar on
DrawSearchPage(ss, ev, ads_items, shown) ==
    DrawSearchPageWith(ss, ev, ads_items, shown, ConfirmOn(ss, ev, ads_items, shown))

\* st.session_state.get("ads_items", [])
AdsItems(ss) == IF "ads_items" \in DOMAIN ss THEN ss["ads_items"].xs ELSE <<>>
\* render_main_search_page with the button click `ev` of this run
render_main_search_page(ss, ev) ==
    DrawSearchPage(ss, ev, AdsItems(ss), CardsDrawn(AdsItems(ss)))

\* where app.py:91-121 leaves the run: stopped with an error, or going on to draw
Stop(ss, msg) == [stopped |-> TRUE, session |-> ss, msg |-> msg, cache |-> cache]
GoOn(ss, c) == [stopped |-> FALSE, session |-> ss, msg |-> Msg("", "", 0), cache |-> c]

\* app.py:115-121, r being what run_apify_scrape did
AfterScrape(ss, r) ==
    IF r.res.raised THEN Stop(ss, Msg("Apify scrape failed: {e}", r.res.exc, 0))
    ELSE GoOn(Pop(MapPut(ss, "ads_items", r.res.val), SearchStateKeys), r.cache)

\* app.py:104-121
FetchUrl(ss, filters, apify_token, url, upstream) ==
    AfterScrape(MapPut(MapPut(ss, "last_query_url", [ty |-> "str", url |-> url]),
                       "last_query_params", PyDict(filters)),
                run_apify_scrape(apify_token, url, filters.count,
                                 filters.active_status_param, upstream))

\* app.py:91-121 when "Fetch ads" was clicked
Fetch(ss, filters, apify_token, upstream) ==
    IF apify_token = <<>>
    THEN Stop(ss, Msg("Please provide an Apify API token in the sidebar.", "", 0))
    ELSE FetchUrl(ss, filters, apify_token,
                  build_fb_ads_library_url(filters.country_code, filters.keyword_raw,
                      filters.ad_type_param, filters.active_status_param,
                      filters.search_mode_param),
                  upstream)

\* st.error(msg) followed by st.stop(): nothing below is drawn
Stopped(f) ==
    [session |-> f.session, cache |-> f.cache,
     screen |-> [mode |-> SEARCH, alert |-> "error", msg |-> f.msg, bar |-> None,
                 cards |-> <<>>, saveUi |-> {}, detail |-> None, debug |-> None]]

\* app.py:123-125
DrawOrStop(f, ev) ==
    IF f.stopped THEN Stopped(f)
    ELSE render_main_search_page(f.session, ev) @@ [cache |-> f.cache]

\* app.py:88-125 on the session state ss left by app.py:74-82
SearchMode(ss, ev, w, upstream) ==
    DrawOrStop(IF ev.kind = "fetch"
               THEN Fetch(ss, render_sidebar_search(w),
                          resolve_apify_token(PyStr(w.token), SecretToken, EnvToken), upstream)
               ELSE GoOn(ss, cache),
               ev)

\* app.py:130-136 while the team selectbox shows "(choose)"
SavedModeNoTeam(ss) ==
    [session |-> ss,
     screen |-> [mode |-> SAVED, alert |-> "info",
                 msg |-> Msg("Select a team from the sidebar to view saved ads.", "", 0),
                 bar |-> None, cards |-> <<>>, saveUi |-> {}, detail |-> None,
                 debug |-> [params |-> Get(ss, "last_query_params"),
                            url |-> Get(ss, "last_query_url")]]]

\* the mode radio keeps its value between runs; "Search Ads" is its default
CurrentMode == IF "_last_mode" \in DOMAIN session THEN session["_last_mode"].s ELSE SEARCH

\* app.py:26, init_db: the three CREATE TABLE IF NOT EXISTS statements
RunInitDb ==
    /\ tables' = tables \cup TeamSet
    /\ pc' = [pc EXCEPT !["p1"] = NTables]
    /\ ret' = Ret("init_db", TEAM_TABLES[NTables], "ok", <<>>)
    /\ UNCHANGED <<rows, seq, clock>>

\* one run of app.py in Search mode
RunSearch(ev, w, upstream) ==
    \E r \in {SearchMode(ClearCrossMode(session, SEARCH), ev, w, upstream)} :
    /\ RunInitDb
    /\ session' = r.session
    /\ screen' = r.screen
    /\ cache' = r.cache
    /\ UNCHANGED <<apify, normVars>>

(***************************************************************************)
(* Inputs of the application: sidebar values, and what the Apify actor     *)
(* answers.                                                                *)
(***************************************************************************)
Token1 == <<" ", "t", "k">>
SidebarSamples ==
    { [country_sel |-> "United States", country_custom |-> <<>>, keyword |-> <<"s", "h", "o", "e">>,
       category |-> "All ads", status |-> "Active ads", match |-> "Broad (any words)",
       count |-> 100, token |-> tk] : tk \in {<<>>, Token1} }
    \cup
    { [country_sel |-> "Custom...", country_custom |-> <<" ", "i", "n">>,
       keyword |-> <<"a", " ", "&", "b", " ">>,
       category |-> "Properties", status |-> "All ads", match |-> "Exact phrase",
       count |-> 5, token |-> Token1] }

AdB == PyDict([ad_archive_id |-> PyStr("b1"), start_date |-> PyInt(Past), is_active |-> PyFalse])
AdC == PyDict([ad_archive_id |-> PyStr("c1"), end_date |-> PyInt(Future)])
Upstreams ==
    { [kind |-> "raise", items |-> <<>>], [kind |-> "no_dataset", items |-> <<>>],
      [kind |-> "items", items |-> <<RawA, AdB>>], [kind |-> "items", items |-> <<AdC>>] }

\* the actor is not called in a run without a click on "Fetch ads"
NotCalled == [kind |-> "not_called", items |-> <<>>]

\* the first request of a browser session
PageLoad ==
    /\ screen = NoScreen
    /\ \E w \in SidebarSamples : RunSearch(NoClick, w, NotCalled)

\* the mode radio is set to the other mode
SwitchMode ==
    /\ screen # NoScreen
    /\ IF CurrentMode = SEARCH
       THEN \E r \in {SavedModeNoTeam(ClearCrossMode(session, SAVED))} :
            /\ RunInitDb
            /\ session' = r.session
            /\ screen' = r.screen
            /\ UNCHANGED <<cache, apify, normVars>>
       ELSE \E w \in SidebarSamples : RunSearch(NoClick, w, NotCalled)

\* "Fetch ads" in the sidebar
ClickFetch(w, upstream) ==
    /\ screen.mode = SEARCH
    /\ RunSearch([kind |-> "fetch", idx |-> 0], w, upstream)

\* "See Ad Details" on the card with index idx
ClickDetail(idx) ==
    /\ screen.mode = SEARCH
    /\ idx < Len(screen.cards)
    /\ \E w \in SidebarSamples :
           RunSearch([kind |-> "detail", idx |-> idx], w, NotCalled)

\* "Save" on the card with index idx
ClickSave(idx) ==
    /\ screen.mode = SEARCH
    /\ idx < Len(screen.cards)
    /\ \E w \in SidebarSamples :
           RunSearch([kind |-> "save", idx |-> idx], w, NotCalled)

\* any other widget changes its value: app.py runs with no button clicked
WidgetChange ==
    /\ screen.mode = SEARCH
    /\ \E w \in SidebarSamples : RunSearch(NoClick, w, NotCalled)

AppInit ==
    /\ StoreInit
    /\ NormIdle
    /\ session = EmptyMap /\ screen = NoScreen /\ cache = EmptyMap
    /\ apify \in BOOLEAN

AppNext ==
    \/ PageLoad
    \/ SwitchMode
    \/ \E w \in SidebarSamples, u \in Upstreams : ClickFetch(w, u)
    \/ \E idx \in 0..(Len(screen.cards) - 1) : ClickDetail(idx)
    \/ \E idx \in 0..(Len(screen.cards) - 1) : ClickSave(idx)
    \/ WidgetChange

SpecApp == AppInit /\ [][AppNext]_vars

(***************************************************************************)
(* Claims about the collection store.                                      *)
(***************************************************************************)
RowsOf(t) == {rows[t][i] : i \in 1..Len(rows[t])}
IdsOf(t) == {RowId(r) : r \in RowsOf(t)}
IsPrefix(a, b) == Len(a) <= Len(b) /\ \A i \in 1..Len(a) : b[i] = a[i]
OkInsert(table, x) ==
    /\ ret'.op = "insert" /\ ret'.table = table /\ ret'.status = "ok"
    /\ DbInsertTeam("p1", table, x.ad, x.raw)
LastRow(t) == rows'[t][Len(rows'[t])]

(* C1: for every collection name outside {team1, team2, team3}, db_insert_team
   and db_fetch_team raise the validation error (ValueError), and the tables,
   their rows and their id counters are exactly what they were before. *)
C1_InvalidNameRejected ==
    [][(ret'.op \in {"insert", "fetch"} /\ ret'.table \notin TeamSet)
          => (ret'.status = "ValueError" /\ rows' = rows /\ seq' = seq /\ tables' = tables)]_vars
C1_Witness ==
    /\ ret.op = "insert" /\ ret.table = "TEAM1" /\ ret.status = "ValueError"
    /\ Len(rows["team1"]) > 0

(* C2: db_fetch_team returns a collection's rows in reverse insertion order
   (the later insert, which has the larger id, first), also for inserts that
   received the same saved_at; every returned row has id and saved_at. *)
C2_FetchMostRecentFirst ==
    (ret.op = "fetch" /\ ret.status = "ok") =>
        /\ \A i, j \in 1..Len(ret.rows) :
               i < j => ret.rows[i]["id"].n > ret.rows[j]["id"].n
        /\ \A i \in 1..Len(ret.rows) :
               ret.rows[i]["id"] # None /\ ret.rows[i]["saved_at"] # None

(* C5: the store is append-only.  A successful db_insert_team adds exactly one
   row, with an id no row of the collection had, at the end of the named
   collection and changes no other row of any collection, also when the same
   ad was saved before; no other call changes a row; db_fetch_team returns as
   many rows as the collection holds. *)
C5_AppendOnly ==
    [][/\ (ret'.op = "insert" /\ ret'.status = "ok") =>
              \A t \in TeamSet :
                  IF t = ret'.table
                  THEN /\ Len(rows'[t]) = Len(rows[t]) + 1
                       /\ IsPrefix(rows[t], rows'[t])
                       /\ RowId(LastRow(t)) \notin IdsOf(t)
                       /\ RowId(LastRow(t)) > seq[t]
                  ELSE rows'[t] = rows[t]
       /\ ~(ret'.op = "insert" /\ ret'.status = "ok") => rows' = rows
       /\ (ret'.op = "fetch" /\ ret'.status = "ok") =>
              Len(ret'.rows) = Len(rows'[ret'.table])]_vars
C5_Witness ==
    /\ ret.op = "insert" /\ ret.status = "ok" /\ ret.table = "team3"
    /\ Len(rows["team3"]) = 2
    /\ rows["team3"][1]["ad_archive_id"] = SqlText("a1")
    /\ rows["team3"][2]["ad_archive_id"] = SqlText("a1")
    /\ rows["team3"][1]["is_active"] = rows["team3"][2]["is_active"]

(* C6: db_insert_team stores is_active = True as 1, False as 0 and an absent
   or None is_active as NULL (never as 0). *)
C6_IsActiveTriState ==
    [][\A table \in TableNames, x \in SaveSamples :
          OkInsert(table, x) =>
              LET v == Get(x.ad, "is_active")
                  stored == LastRow(table)["is_active"]
              IN  /\ v = PyTrue => stored = SqlInteger(1)
                  /\ v = PyFalse => stored = SqlInteger(0)
                  /\ v = None => stored = SqlNull]_vars
C6_Witness ==
    /\ ret.op = "insert" /\ ret.status = "ok" /\ ret.table = "team3"
    /\ \E r \in RowsOf("team3") : r["ad_archive_id"] = SqlText("a2") /\ r["is_active"] = SqlNull
    /\ \E r \in RowsOf("team3") : r["ad_archive_id"] = SqlNull /\ r["is_active"] = SqlNull

(* C8: the raw copy round-trips.  The blob db_insert_team stores for a raw
   record is JSON that decodes to that record, and NULL when none was given;
   db_fetch_team returns every row of the collection, with raw_json None for
   NULL, the decoded value for a decodable blob and the undecoded string for
   a blob json.loads rejects. *)
StoredOf(t, d) == CHOOSE r \in RowsOf(t) : PyInt(RowId(r)) = d["id"]
C8_RawRoundTrip ==
    /\ [][\A table \in TableNames, x \in SaveSamples :
             OkInsert(table, x) =>
                 LET blob == LastRow(table)["raw_json"] IN
                 IF x.raw = None THEN blob = SqlNull
                 ELSE /\ blob.ty = "text"
                      /\ JsonLoads(blob.toks) = [ok |-> TRUE, val |-> x.raw]]_vars
    /\ [](ret.op = "fetch" /\ ret.status = "ok" =>
             /\ {ret.rows[i]["id"] : i \in 1..Len(ret.rows)} = {PyInt(n) : n \in IdsOf(ret.table)}
             /\ Len(ret.rows) = Len(rows[ret.table])
             /\ \A i \in 1..Len(ret.rows) :
                    LET d == ret.rows[i]
                        blob == StoredOf(ret.table, d)["raw_json"]
                    IN  IF blob = SqlNull THEN d["raw_json"] = None
                        ELSE IF JsonLoads(blob.toks).ok
                             THEN d["raw_json"] = JsonLoads(blob.toks).val
                             ELSE d["raw_json"] = [ty |-> "str", toks |-> blob.toks])
C8_Witness ==
    /\ ret.op = "fetch" /\ ret.status = "ok" /\ Len(ret.rows) = 2
    /\ \E i \in 1..2 : ret.rows[i]["raw_json"] = RawA
    /\ \E i \in 1..2 : ret.rows[i]["raw_json"] = [ty |-> "str", toks |-> <<Tok("{"), TokStr("bad")>>]

(* C7: init_db, run again and again by several process instances interleaved
   with each other and with inserts, never raises, creates no table but
   team1..team3 (all three exist once any init_db has returned), and never
   removes or changes a row. *)
C7_InitDbIdempotent ==
    /\ [](ret.op = "init_db" => ret.status = "ok")
    /\ [](tables \subseteq TeamSet /\ ((\E p \in Procs : pc[p] = NTables) => tables = TeamSet))
    /\ [][(\A t \in TeamSet : IsPrefix(rows[t], rows'[t]))
          /\ (ret'.op = "init_db" => rows' = rows /\ seq' = seq)]_vars
C7_Witness ==
    /\ ret.op = "init_db" /\ pc["p1"] = 1 /\ pc["p2"] = 2
    /\ Len(rows["team1"]) = 2 /\ rows["team1"][1] # LegacyRow

(***************************************************************************)
(* Claims about the field normalizer.                                      *)
(***************************************************************************)
SeqSet(q) == {q[i] : i \in 1..Len(q)}

(* C4: no Field Normalizer function raises: on every raw record each of
   extract_selected_fields, detect_status, compute_running_days and
   extract_primary_media returns a value. *)
C4_NormalizerNeverRaises == ~out.res.raised

\* the instant a date value denotes (epoch number, numeric string, date string
\* read as UTC unless it carries an offset); Denotes is false for anything else
DenotesInstant(v) ==
    \/ v.ty = "int" /\ v.n > 0 /\ v.n <= MaxTimestamp
    \/ v.ty = "str" /\ "form" \in DOMAIN v /\ (v.form = "digits" => v.n > 0 /\ v.n <= MaxTimestamp)
InstantOf(v) == IF "n" \in DOMAIN v THEN v.n ELSE v.t - v.off
EndValue(it) == IF "endDate" \in DOMAIN it THEN it["endDate"] ELSE Get(it, "end_date")
ExpectedStatus(it, t) ==
    LET present == {i \in 1..Len(StatusKeys) : Get(it, StatusKeys[i]) # None} IN
    IF present # {} THEN Capitalize(StrOf(it[StatusKeys[MinOf(present)]]))
    ELSE IF Get(it, "is_active") = PyFalse THEN "Inactive"
    ELSE IF DenotesInstant(EndValue(it)) /\ InstantOf(EndValue(it)) < t THEN "Inactive"
    ELSE "Active"

(* C9: detect_status returns the capitalised value of the first non-null key
   among activeStatus, status, adStatus, active_status whatever is_active and
   the end date are; with none of them, "Inactive" for is_active = False,
   else "Inactive" for an end date in the past, else "Active". *)
C9_StatusPriority ==
    out.fn = "detect_status" => out.res = Returned(PyStr(ExpectedStatus(inItem, nowTick)))

\* what is left of C9 once the raising comparison is set aside (not a claim)
StatusPriorityWhereReturned ==
    (out.fn = "detect_status" /\ ~out.res.raised) =>
        out.res = Returned(PyStr(ExpectedStatus(inItem, nowTick)))

\* the sources of extract_primary_media, each as the pair it would yield or NoHit
NoHit == <<None, None>>
KeyHit(d, keys, kind) ==
    IF \E k \in SeqSet(keys) : Truthy(Get(d, k))
    THEN <<PyStr(kind), Get(d, keys[MinOf({i \in 1..Len(keys) : Truthy(Get(d, keys[i]))})])>>
    ELSE NoHit
SnapshotHit(it) ==
    IF Truthy(get_original_image_url(it)) THEN <<PyStr("image"), get_original_image_url(it)>>
    ELSE NoHit
EntriesOf(it) ==
    LET c == IF Truthy(Get(it, "creatives")) THEN it["creatives"]
             ELSE IF Truthy(Get(it, "media")) THEN it["media"] ELSE PyList(<<>>)
    IN  IF c.ty = "dict" THEN <<c>> ELSE IF c.ty = "list" THEN c.xs ELSE <<>>
EntryHit(it) ==
    LET es == EntriesOf(it)
        exposing == {i \in 1..Len(es) :
                        es[i].ty = "dict" /\ (KeyHit(es[i].d, ImgKeys, "image") # NoHit
                                              \/ KeyHit(es[i].d, VidKeys, "video") # NoHit)}
    IN  IF exposing = {} THEN NoHit
        ELSE LET e == es[MinOf(exposing)].d IN
             IF KeyHit(e, ImgKeys, "image") # NoHit THEN KeyHit(e, ImgKeys, "image")
             ELSE KeyHit(e, VidKeys, "video")
UrlListHit(it) ==
    LET m == IF Truthy(Get(it, "mediaUrls")) THEN it["mediaUrls"] ELSE Get(it, "media_urls") IN
    IF m.ty = "list" /\ Len(m.xs) > 0 THEN <<PyStr("image"), m.xs[1]>> ELSE NoHit
MediaSources(it) ==
    <<SnapshotHit(it), KeyHit(it, ImgKeys, "image"), KeyHit(it, VidKeys, "video"),
      EntryHit(it), UrlListHit(it)>>

(* C10: extract_primary_media returns one (kind, url) pair, that of the first
   source that has one in the order snapshot image, direct image keys, direct
   video keys, first creative/media entry exposing an image or video key,
   first entry of the media-URL list (as an image); (None, None) when no
   source has one. *)
C10_MediaPriority ==
    out.fn = "extract_primary_media" =>
        LET src == MediaSources(inItem)
            hits == {i \in 1..Len(src) : src[i] # NoHit}
        IN  /\ Len(out.res.val) = 2
            /\ hits = {} => out.res.val = NoHit
            /\ hits # {} => out.res.val = src[MinOf(hits)]
C10_Witness ==
    /\ out.fn = "extract_primary_media"
    /\ Get(inItem, "videoUrl") = PyStr("v1")
    /\ get_original_image_url(inItem) = PyStr("s2")
    /\ out.res.val = <<PyStr("image"), PyStr("s2")>>

(***************************************************************************)
(* Claims about the application.                                           *)
(***************************************************************************)
DisplayKeys ==
    {"ads_items", "last_query_params", "last_query_url", "selected_ad_idx", "save_pending_idx"}
ResultKeys == {"ads_items", "selected_ad_idx", "save_pending_idx"}
EmptyResultMsg == Msg("Submit a query from the sidebar to fetch ads.", "", 0)

(* C3: when a requested fetch fails (no token, or the scrape call raises),
   ads_items, last_query_params, last_query_url, selected_ad_idx and
   save_pending_idx are what they were before the fetch was requested, and
   the run shows an error, which is not what a successful fetch of zero
   records shows. *)
C3_FailedFetchLeavesState ==
    [][screen'.alert = "error" =>
          /\ \A k \in DisplayKeys : Get(session', k) = Get(session, k)
          /\ screen'.msg # EmptyResultMsg]_vars

\* what a failed fetch does keep: the records and the two selections, and,
\* when it fails for the missing token, the last query as well
FailedFetchKeepsResults ==
    [][screen'.alert = "error" =>
          /\ \A k \in ResultKeys : Get(session', k) = Get(session, k)
          /\ screen'.msg # EmptyResultMsg
          /\ screen'.msg.text = "Please provide an Apify API token in the sidebar."
               => \A k \in DisplayKeys : Get(session', k) = Get(session, k)]_vars
\* a fetch fails while records of an earlier query are held and a card is selected
FailedFetchOverResults ==
    /\ screen.alert = "error"
    /\ "ads_items" \in DOMAIN session /\ session["ads_items"].xs # <<>>
    /\ "selected_ad_idx" \in DOMAIN session

(***************************************************************************)
(* Claims about date coercion, running days and aliases.                   *)
(***************************************************************************)
\* the value extract_selected_fields coerces for each date field
StartRaw(it) == PyOr(Get(it, "start_date"), Get(it, "startDate"))
EndRaw(it) == PyOr(Get(it, "end_date"), Get(it, "endDate"))
IsNumeric(v) == v.ty = "int" \/ (v.ty = "str" /\ "form" \in DOMAIN v /\ v.form = "digits")
IsDateText(v) == v.ty = "str" /\ "form" \in DOMAIN v /\ v.form # "digits"
\* the UTC calendar date of the instant v denotes, or None
UtcDateOf(v) ==
    IF IsNumeric(v) THEN (IF v.n <= MaxTimestamp THEN IsoDate(DayOf(v.n)) ELSE None)
    ELSE IF IsDateText(v) THEN IsoDate(DayOf(v.t - v.off))
    ELSE None

(* C11: the start_date and end_date of extract_selected_fields are the UTC
   calendar date of the instant the raw value denotes: a number or digit
   string is epoch seconds, a date string in a listed format is converted to
   its UTC date also when it carries a non-zero offset, anything else gives
   None. *)
C11_DateIsUtcDate ==
    out.fn = "extract_selected_fields" =>
        /\ out.res.val.start_date = UtcDateOf(StartRaw(inItem))
        /\ out.res.val.end_date = UtcDateOf(EndRaw(inItem))

\* what holds of C11: every value but a zero epoch and a date string whose
\* offset moves it over midnight is coerced to its UTC date
CrossesMidnight(v) == IsDateText(v) /\ DayOf(v.t - v.off) # DayOf(v.t)
ZeroEpoch(v) == IsNumeric(v) /\ v.n = 0
DateIsUtcDateElsewhere ==
    out.fn = "extract_selected_fields" =>
        /\ (~CrossesMidnight(StartRaw(inItem)) /\ ~ZeroEpoch(StartRaw(inItem)))
              => out.res.val.start_date = UtcDateOf(StartRaw(inItem))
        /\ (~CrossesMidnight(EndRaw(inItem)) /\ ~ZeroEpoch(EndRaw(inItem)))
              => out.res.val.end_date = UtcDateOf(EndRaw(inItem))
\* a date string with an offset that moves it to another UTC day was coerced
OffsetDateCoerced ==
    /\ out.fn = "extract_selected_fields"
    /\ CrossesMidnight(StartRaw(inItem))
    /\ out.res.val.start_date # None

\* the start value compute_running_days reads
RunningStart(it) == PyOr(Get(it, "startDate"), Get(it, "start_date"))
\* whole days from instant s to instant t, and 0 when s is after t
WholeDays(s, t) ==
    IF t < s THEN 0
    ELSE CHOOSE k \in 0..(t - s) : k * TicksPerDay <= t - s /\ t - s < (k + 1) * TicksPerDay

(* C12: compute_running_days returns max(now - start, 0) in whole days: None
   when the start date is missing or does not parse, 0 for a start in the
   future and for a start of now, k for a start exactly k days ago; never a
   negative number. *)
C12_RunningDays ==
    out.fn = "compute_running_days" =>
        /\ ~out.res.raised
        /\ IF DenotesInstant(RunningStart(inItem))
           THEN out.res.val = PyInt(WholeDays(InstantOf(RunningStart(inItem)), nowTick))
           ELSE out.res.val = None
        /\ out.res.val # None => out.res.val.n >= 0
\* a start two days ago gave 2, in a run where a start in the future is possible
C12_Witness ==
    /\ out.fn = "compute_running_days"
    /\ RunningStart(inItem) = PyInt(nowTick - 2 * TicksPerDay)
    /\ out.res.val = PyInt(2)
\* a start in the future gave 0
FutureStartGivesZero ==
    /\ out.fn = "compute_running_days"
    /\ DenotesInstant(RunningStart(inItem)) /\ InstantOf(RunningStart(inItem)) > nowTick
    /\ out.res.val = PyInt(0)


(***************************************************************************)
(* summarize_text (logic.py:256-260).  Text is a sequence of characters.   *)
(***************************************************************************)
\* the one character U+2026
Ellipsis == "..."
\* str.replace("\n", " ")
ReplaceNewlines(cs) == [i \in 1..Len(cs) |-> IF cs[i] = "\n" THEN " " ELSE cs[i]]
\* cs[:k], a negative k counts from the end
SliceTo(cs, k) ==
    IF k >= 0 THEN SubSeq(cs, 1, IF k < Len(cs) THEN k ELSE Len(cs))
    ELSE SubSeq(cs, 1, IF Len(cs) + k > 0 THEN Len(cs) + k ELSE 0)
\* mutant: cuts at length and then appends the marker
summarize_text_CutAtLength(txt, length) ==
    IF txt = None \/ txt.s = <<>> THEN <<>>
    ELSE IF Len(ReplaceNewlines(Strip(txt.s))) > length
         THEN SliceTo(ReplaceNewlines(Strip(txt.s)), length) \o <<Ellipsis>>
         ELSE ReplaceNewlines(Strip(txt.s))
\* txt is None or a str whose s is its characters; the result is the
\* characters of the returned str
summarize_text(txt, length) ==
    IF txt = None \/ txt.s = <<>> THEN <<>>
    ELSE IF Len(ReplaceNewlines(Strip(txt.s))) > length
         THEN SliceTo(ReplaceNewlines(Strip(txt.s)), length - 1) \o <<Ellipsis>>
         ELSE ReplaceNewlines(Strip(txt.s))

\* inputs: texts of up to MaxText characters, lengths as the call sites pass
\* them (positive: 160 by default, 200 in ui.py:202)
MaxText == 4
MaxLength == 3
TextChars == {"a", "b", " ", "\n"}
Texts == UNION { [1..n -> TextChars] : n \in 0..MaxText }
TextInit ==
    /\ inItem \in [txt : {PyStr(cs) : cs \in Texts} \cup {None}, length : 1..MaxLength]
    /\ nowTick = Now0
    /\ out = NoOut
    /\ tables = {} /\ rows = NoRows /\ seq = [t \in TeamSet |-> 0]
    /\ clock = 1 /\ pc = [p \in Procs |-> 0] /\ ret = Ret("none", "", "ok", <<>>)
    /\ AppIdle
CallSummarizeText ==
    /\ out' = [fn |-> "summarize_text", res |-> Returned(summarize_text(inItem.txt, inItem.length))]
    /\ UNCHANGED <<inItem, nowTick, storeVars, appVars>>
TextNext == CallSummarizeText
SpecText == TextInit /\ [][TextNext]_vars

\* the text as the summary shows it: newlines are spaces, no blanks around it
Trimmed(txt) == IF txt = None THEN <<>> ELSE Strip(ReplaceNewlines(txt.s))
(* C13: summarize_text(txt, length) never returns more than length
   characters: text longer than length after trimming is cut to exactly
   length characters, the last of them the ellipsis marker and the others
   the start of the text; text of at most length characters is returned
   unchanged apart from trimming and newline-to-space replacement; null or
   empty input returns the empty string. *)
C13_SummaryLength ==
    out.fn = "summarize_text" =>
        /\ Len(out.res.val) <= inItem.length
        /\ IF inItem.txt = None \/ inItem.txt = PyStr(<<>>) THEN out.res.val = <<>>
           ELSE IF Len(Trimmed(inItem.txt)) > inItem.length
                THEN /\ Len(out.res.val) = inItem.length
                     /\ out.res.val[inItem.length] = Ellipsis
                     /\ \A i \in 1..(inItem.length - 1) : out.res.val[i] = Trimmed(inItem.txt)[i]
                ELSE out.res.val = Trimmed(inItem.txt)
\* a text with a newline inside, longer than the length, was cut
C13_Witness ==
    /\ out.fn = "summarize_text"
    /\ inItem.txt # None /\ inItem.length >= 2
    /\ Len(Trimmed(inItem.txt)) > inItem.length
    /\ \E i \in 1..(inItem.length - 1) : inItem.txt.s[i] = "\n" /\ out.res.val[i] = " "
    /\ out.res.val[inItem.length] = Ellipsis


(***************************************************************************)
(* Claims about the snapshot sub-structures and the curated field set      *)
(***************************************************************************)
\* the rule: the first element of a list, the mapping itself, else None
FirstOrSelf(v) ==
    IF v.ty = "list" THEN (IF Len(v.xs) > 0 /\ v.xs[1].ty = "dict" THEN v.xs[1] ELSE None)
    ELSE IF v.ty = "dict" THEN v ELSE None
UsableUrl(m) == IF m.ty = "dict" THEN FirstTruthy(m.d, ImageUrlKeys, 1) ELSE None
SnapOf(it, k) == Get(_get_snapshot_dict(it), k)

(* C14: for cards, page_categories and images the normalizer uses only the
   first element of a list, the mapping itself when the value is a single
   mapping, and None otherwise; original_image_url comes from the first
   element of an images list and is None when that element has no usable
   URL. *)
C14_FirstElementRule ==
    out.fn = "extract_selected_fields" =>
        /\ out.res.val.cta_text =
              PyOr(GetIfDict(FirstOrSelf(SnapOf(inItem, "cards")), "cta_text"), SnapOf(inItem, "cta_text"))
        /\ out.res.val.page_entity_type =
              PyOr(GetIfDict(FirstOrSelf(SnapOf(inItem, "page_categories")), "page_entity_type"),
                   Get(inItem, "page_entity_type"))
        /\ out.res.val.original_image_url = UsableUrl(FirstOrSelf(SnapOf(inItem, "images")))
\* cards and page_categories do follow the rule
CardsAndCategoriesFirstElement ==
    out.fn = "extract_selected_fields" =>
        /\ out.res.val.cta_text =
              PyOr(GetIfDict(FirstOrSelf(SnapOf(inItem, "cards")), "cta_text"), SnapOf(inItem, "cta_text"))
        /\ out.res.val.page_entity_type =
              PyOr(GetIfDict(FirstOrSelf(SnapOf(inItem, "page_categories")), "page_entity_type"),
                   Get(inItem, "page_entity_type"))
\* a cards list whose first element has no cta_text gave no card text
FirstCardOnly ==
    /\ out.fn = "extract_selected_fields"
    /\ SnapOf(inItem, "cards") = PyList(<<PyDict(EmptyMap), Card("c2")>>)
    /\ SnapOf(inItem, "cta_text") = None
    /\ out.res.val.cta_text = None
\* an images list whose first element has no URL gave the URL of a later one
LaterImageUsed ==
    /\ out.fn = "extract_selected_fields"
    /\ SnapOf(inItem, "images").ty = "list"
    /\ UsableUrl(FirstOrSelf(SnapOf(inItem, "images"))) = None
    /\ out.res.val.original_image_url # None


\* ads_to_dataframe: one row per item; the columns of pd.DataFrame(rows) are
\* the keys of the rows
ads_to_dataframe(items) == [i \in 1..Len(items) |-> extract_selected_fields(items[i])]
Columns(df) == UNION { DOMAIN df[i] : i \in 1..Len(df) }

(* C15: the curated export has exactly the CuratedRecord field set, the 19
   fields ad_archive_id ... original_image_url that are also the curated
   columns of a collection row: what extract_selected_fields and
   ads_to_dataframe produce for a record has no field missing and no extra
   field. *)
C15_ExactFieldSet ==
    out.fn = "extract_selected_fields" =>
        /\ DOMAIN out.res.val = CuratedSet
        /\ Columns(ads_to_dataframe(<<inItem>>)) = CuratedSet
\* no curated field is missing, and the one extra key is original_picture_url
CuratedFieldsPresent ==
    out.fn = "extract_selected_fields" =>
        /\ CuratedSet \subseteq DOMAIN out.res.val
        /\ DOMAIN out.res.val \ CuratedSet = {"original_picture_url"}
        /\ Cardinality(CuratedSet) = 19


(***************************************************************************)
(* Claims about the scrape failures, the URL and the token                 *)
(***************************************************************************)
\* which condition made the fetch of this run fail: run_apify_scrape raises
\* RuntimeError without the client library and the actor call raises its own
\* error; app.py stops before the call when there is no token
FailureCause ==
    IF screen.msg.exc = "RuntimeError" THEN "missing-dependency"
    ELSE IF screen.msg.exc = "" THEN "missing-token"
    ELSE "upstream-failure"
\* the condition an error report of the application stands for
ReportedAs(text) ==
    CASE text = "Please provide an Apify API token in the sidebar." -> "missing-token"
      [] text = "Apify scrape failed: {e}" -> "upstream-failure"
      [] OTHER -> "missing-dependency"

(* C16: the three scrape failure conditions are distinct outcomes: with an
   empty token no scrape is attempted, without the client library the call
   fails before any upstream request, and the application reports
   missing-dependency, missing-token and upstream-failure as three different
   outcomes, not through one shared failure path. *)
C16_DistinctFailures ==
    /\ \A u \in Upstreams :
          /\ run_apify_scrape(<<>>, <<>>, 5, "all", u).res.raised
          /\ run_apify_scrape(<<>>, <<>>, 5, "all", u).cache = cache
    /\ ~apify => \A u \in Upstreams :
                    run_apify_scrape(Token1, <<>>, 5, "all", u).res = Raised("RuntimeError")
    /\ screen.alert = "error" => ReportedAs(screen.msg.text) = FailureCause
\* run_apify_scrape itself keeps the three apart, and app.py reports the
\* missing token on its own
FailuresDistinctInLogic ==
    /\ \A u \in Upstreams :
          /\ run_apify_scrape(<<>>, <<>>, 5, "all", u).res.raised
          /\ run_apify_scrape(<<>>, <<>>, 5, "all", u).cache = cache
          /\ apify => run_apify_scrape(<<>>, <<>>, 5, "all", u).res = Raised("ValueError")
    /\ ~apify => \A u \in Upstreams :
                    run_apify_scrape(Token1, <<>>, 5, "all", u).res = Raised("RuntimeError")
    /\ screen.alert = "error" =>
          (FailureCause = "missing-token" <=> ReportedAs(screen.msg.text) = "missing-token")
\* the missing library was reported by the handler of upstream failures
DependencyReportedAsScrapeFailure ==
    /\ ~apify
    /\ screen.alert = "error"
    /\ screen.msg = Msg("Apify scrape failed: {e}", "RuntimeError", 0)
\* an upstream failure was reported by the same handler
UpstreamReportedAsScrapeFailure ==
    /\ apify
    /\ screen.alert = "error"
    /\ screen.msg = Msg("Apify scrape failed: {e}", "ApifyError", 0)


\* inputs of the URL builder: country codes as typed, keywords of up to
\* MaxKeyword characters with the characters a query string gives a meaning
\* to, and the tokens of the lookup tables
MaxKeyword == 3
KeywordChars == {"s", " ", "&", "=", "+", "%", "#"}
Keywords == UNION { [1..n -> KeywordChars] : n \in 0..MaxKeyword }
Countries == { <<"u", "s">>, <<" ", "i", "n", "\t">>, <<"G", "B">> }
UrlInit ==
    /\ inItem \in [country : Countries, keyword : Keywords,
                   ad_type : {"all", "housing_ads"}, active_status : {"active", "all"},
                   search_mode : {"keyword_unordered", "keyword_exact"}]
    /\ nowTick = Now0
    /\ out = NoOut
    /\ tables = {} /\ rows = NoRows /\ seq = [t \in TeamSet |-> 0]
    /\ clock = 1 /\ pc = [p \in Procs |-> 0] /\ ret = Ret("none", "", "ok", <<>>)
    /\ AppIdle
CallBuildUrl ==
    /\ out' = [fn |-> "build_fb_ads_library_url",
               res |-> Returned(build_fb_ads_library_url(inItem.country, inItem.keyword,
                           inItem.ad_type, inItem.active_status, inItem.search_mode))]
    /\ UNCHANGED <<inItem, nowTick, storeVars, appVars>>
UrlNext == CallBuildUrl
SpecUrl == UrlInit /\ [][UrlNext]_vars

\* how a reader of the URL takes it apart: the pieces between separators
RECURSIVE SplitAt(_, _, _)
SplitAt(cs, sep, cur) ==
    IF cs = <<>> THEN <<cur>>
    ELSE IF Head(cs) = sep THEN <<cur>> \o SplitAt(Tail(cs), sep, <<>>)
    ELSE SplitAt(Tail(cs), sep, Append(cur, Head(cs)))
\* the query parameters of a URL, as <<name, value>> pairs in order
QueryParams(url) ==
    LET segs == SplitAt(SubSeq(url, 3, Len(url)), "&", <<>>)
        pair(sg) == LET nv == SplitAt(sg, "=", <<>>)
                    IN  IF Len(nv) = 2 THEN nv ELSE <<sg, <<"malformed">>>>
    IN  [i \in 1..Len(segs) |-> pair(segs[i])]
\* percent-decoding of a query value
RECURSIVE UnquotePlus(_)
UnquotePlus(cs) ==
    IF cs = <<>> THEN <<>>
    ELSE IF Head(cs) = "+" THEN <<" ">> \o UnquotePlus(Tail(cs))
    ELSE IF Head(cs) = "%" /\ Len(cs) >= 3
         THEN << CASE SubSeq(cs, 2, 3) = <<"2", "6">> -> "&"
                   [] SubSeq(cs, 2, 3) = <<"3", "D">> -> "="
                   [] SubSeq(cs, 2, 3) = <<"2", "B">> -> "+"
                   [] SubSeq(cs, 2, 3) = <<"2", "5">> -> "%"
                   [] SubSeq(cs, 2, 3) = <<"3", "F">> -> "?"
                   [] SubSeq(cs, 2, 3) = <<"2", "3">> -> "#"
                   [] SubSeq(cs, 2, 3) = <<"2", "F">> -> "/"
                   [] OTHER -> "\"" >> \o UnquotePlus(SubSeq(cs, 4, Len(cs)))
    ELSE <<Head(cs)>> \o UnquotePlus(Tail(cs))
TrimUpperCountry(c) ==
    CASE c = <<"u", "s">> -> <<"U", "S">>
      [] c = <<" ", "i", "n", "\t">> -> <<"I", "N">>
      [] OTHER -> c

(* C17: build_fb_ads_library_url is total and depends only on its five
   arguments: the country appears trimmed and upper-cased, the category,
   status and match-mode tokens appear unchanged, and the keyword is encoded
   so that for every keyword the URL has no literal space and the keyword
   neither adds nor alters another query parameter. *)
C17_UrlFromArguments ==
    out.fn = "build_fb_ads_library_url" =>
        /\ ~out.res.raised
        /\ SubSeq(out.res.val, 1, 2) = <<"https://www.facebook.com/ads/library/", "?">>
        /\ \A i \in 1..Len(out.res.val) : out.res.val[i] \notin {" ", "\t", "\n", "#"}
        /\ Len(QueryParams(out.res.val)) = 7
        /\ QueryParams(out.res.val)[1] = << <<"active_status">>, <<inItem.active_status>> >>
        /\ QueryParams(out.res.val)[2] = << <<"ad_type">>, <<inItem.ad_type>> >>
        /\ QueryParams(out.res.val)[3] = << <<"country">>, TrimUpperCountry(inItem.country) >>
        /\ QueryParams(out.res.val)[4] = << <<"is_targeted_country">>, <<"false">> >>
        /\ QueryParams(out.res.val)[5] = << <<"media_type">>, <<"all">> >>
        /\ QueryParams(out.res.val)[6][1] = <<"q">>
        /\ UnquotePlus(QueryParams(out.res.val)[6][2]) = Strip(inItem.keyword)
        /\ QueryParams(out.res.val)[7] = << <<"search_type">>, <<inItem.search_mode>> >>
\* a keyword with a blank and an ampersand inside, and a country typed in
\* lower case with blanks around it
C17_Witness ==
    /\ out.fn = "build_fb_ads_library_url"
    /\ inItem.keyword = <<"s", " ", "&">>
    /\ inItem.country = <<" ", "i", "n", "\t">>
    /\ QueryParams(out.res.val)[6][2] = <<"s", "+", "%", "2", "6">>


\* inputs of the token resolution: each source absent, empty, blank, or a
\* token with or without blanks around it
TokenVals(c) == { None, PyStr(<<>>), PyStr(<<" ">>), PyStr(<<c>>), PyStr(<<" ", c, "\t">>) }
TokenInit ==
    /\ inItem \in [sidebar : TokenVals("a"), secret : TokenVals("b"), env : TokenVals("c")]
    /\ nowTick = Now0
    /\ out = NoOut
    /\ tables = {} /\ rows = NoRows /\ seq = [t \in TeamSet |-> 0]
    /\ clock = 1 /\ pc = [p \in Procs |-> 0] /\ ret = Ret("none", "", "ok", <<>>)
    /\ AppIdle
CallResolveToken ==
    /\ out' = [fn |-> "resolve_apify_token",
               res |-> Returned(resolve_apify_token(inItem.sidebar, inItem.secret, inItem.env))]
    /\ UNCHANGED <<inItem, nowTick, storeVars, appVars>>
TokenNext == CallResolveToken
SpecToken == TokenInit /\ [][TokenNext]_vars

NonEmpty(v) == v # None /\ v.s # <<>>
Blank(v) == v # None /\ v.s # <<>> /\ \A i \in 1..Len(v.s) : v.s[i] \in Whitespace

(* C18: resolve_apify_token returns the first non-empty value in the order
   sidebar override, configured secret, environment variable; it returns the
   empty string only when all three are empty or absent; a lower-priority
   source is never used when a higher-priority one is non-empty.  (The
   statement as claimed, non-empty meaning a string of at least one
   character.) *)
C18_FirstNonEmptyWins ==
    out.fn = "resolve_apify_token" =>
        /\ NonEmpty(inItem.sidebar) => Strip(out.res.val) = Strip(inItem.sidebar.s)
        /\ ~NonEmpty(inItem.sidebar) /\ NonEmpty(inItem.secret) => out.res.val = inItem.secret.s
        /\ ~NonEmpty(inItem.sidebar) /\ ~NonEmpty(inItem.secret) /\ NonEmpty(inItem.env)
              => out.res.val = inItem.env.s
        /\ out.res.val = <<>> <=>
              ~NonEmpty(inItem.sidebar) /\ ~NonEmpty(inItem.secret) /\ ~NonEmpty(inItem.env)
(* C18, amended: a sidebar override counts when it is not blank and is
   returned without the blanks around it; otherwise the secret is returned
   when it is non-empty, otherwise the environment variable when it is
   non-empty, otherwise the empty string.  A blank sidebar override is
   treated as absent. *)
C18_FirstUsableWins ==
    out.fn = "resolve_apify_token" =>
        /\ NonEmpty(inItem.sidebar) /\ ~Blank(inItem.sidebar)
              => out.res.val = Strip(inItem.sidebar.s)
        /\ (~NonEmpty(inItem.sidebar) \/ Blank(inItem.sidebar)) /\ NonEmpty(inItem.secret)
              => out.res.val = inItem.secret.s
        /\ (~NonEmpty(inItem.sidebar) \/ Blank(inItem.sidebar)) /\ ~NonEmpty(inItem.secret)
              /\ NonEmpty(inItem.env)
              => out.res.val = inItem.env.s
        /\ out.res.val = <<>> <=>
              /\ ~NonEmpty(inItem.sidebar) \/ Blank(inItem.sidebar)
              /\ ~NonEmpty(inItem.secret)
              /\ ~NonEmpty(inItem.env)
\* a blank sidebar override, a secret and an environment variable: the
\* secret was returned
C18_Witness ==
    /\ out.fn = "resolve_apify_token"
    /\ Blank(inItem.sidebar)
    /\ inItem.secret = PyStr(<<"b">>) /\ NonEmpty(inItem.env)
    /\ out.res.val = <<"b">>


(***************************************************************************)
(* The saved-ad detail view (ui.py:324-371): a fetched row is turned back  *)
(* into a record and normalized again.                                     *)
(***************************************************************************)
\* _db_row_to_item; row is a dict of db_fetch_team
_db_row_to_item(row) ==
    IF row["raw_json"].ty = "dict" THEN row["raw_json"].d
    ELSE [ad_archive_id |-> Get(row, "ad_archive_id"),
          categories |-> Get(row, "categories"),
          collation_count |-> Get(row, "collation_count"),
          collation_id |-> Get(row, "collation_id"),
          start_date |-> Get(row, "start_date"),
          end_date |-> Get(row, "end_date"),
          entity_type |-> Get(row, "entity_type"),
          is_active |-> PyBool(Truthy(Get(row, "is_active"))),
          page_id |-> Get(row, "page_id"),
          page_name |-> Get(row, "page_name"),
          state_media_run_label |-> Get(row, "state_media_run_label"),
          total_active_time |-> Get(row, "total_active_time"),
          snapshot |-> PyDict(
             [link_url |-> Get(row, "link_url"),
              cards |-> PyDict([cta_text |-> Get(row, "cta_text"),
                                cta_type |-> Get(row, "cta_type"),
                                link_url |-> Get(row, "link_url")]),
              page_categories |-> PyDict([page_entity_type |-> Get(row, "page_entity_type")]),
              images |-> PyDict([original_image_url |-> Get(row, "original_image_url")]),
              page_profile_picture_url |-> Get(row, "page_profile_picture_url"),
              page_profile_uri |-> Get(row, "page_profile_uri")])]

\* curated records as a save passes them to db_insert_team
CuratedSamples ==
    [is_active : {None, PyTrue, PyFalse},
     start_date : {None, IsoDate(DayOf(Past))},
     total_active_time : {None, PyInt(0), PyInt(5)},
     cta_text : {None, PyStr("c")},
     page_entity_type : {None, PyStr("p")},
     original_image_url : {None, PyStr("u")}]

\* init_db has run; the record to save is chosen
SavedInit ==
    /\ inItem \in CuratedSamples
    /\ nowTick = Now0
    /\ out = NoOut
    /\ tables = TeamSet /\ rows = NoRows /\ seq = [t \in TeamSet |-> 0]
    /\ clock = 1 /\ pc = [p \in Procs |-> NTables] /\ ret = Ret("none", "", "ok", <<>>)
    /\ AppIdle
\* the record is saved without a raw copy
SaveCurated ==
    /\ rows["team1"] = <<>>
    /\ \E r \in {db_insert_team("team1", inItem, None)} :
           /\ rows' = r.rows
           /\ seq' = r.seq
           /\ ret' = Ret("insert", "team1", r.status, <<>>)
    /\ UNCHANGED <<tables, clock, pc, normVars, appVars>>
\* render_saved_ad_detail on the row db_fetch_team returns
ShowSavedDetail ==
    /\ rows["team1"] # <<>>
    /\ \E r \in {db_fetch_team("team1", <<1>>)} :
           /\ ret' = Ret("fetch", "team1", r.status, r.rows)
           /\ out' = [fn |-> "render_saved_ad_detail", row |-> r.rows[1],
                      res |-> Returned(extract_selected_fields(_db_row_to_item(r.rows[1])))]
    /\ UNCHANGED <<tables, rows, seq, clock, pc, inItem, nowTick, appVars>>
SavedNext == SaveCurated \/ ShowSavedDetail
SpecSaved == SavedInit /\ [][SavedNext]_vars

\* Python's ==, under which True is 1 and False is 0
SameValue(a, b) ==
    IF a.ty \in {"bool", "int"} /\ b.ty \in {"bool", "int"} THEN IntOf(a) = IntOf(b) ELSE a = b

(* C19: for a saved row without a decodable raw copy, rebuilding a record
   with _db_row_to_item and normalizing it with extract_selected_fields gives,
   for every curated field, the value of the stored column; a stored
   is_active of NULL (unknown) comes back as unknown, not as false. *)
C19_StoredRoundTrip ==
    out.fn = "render_saved_ad_detail" /\ out.row["raw_json"].ty # "dict" =>
        \A c \in CuratedSet : SameValue(out.res.val[c], out.row[c])
\* every field but a NULL is_active does come back as stored
RoundTripButUnknown ==
    out.fn = "render_saved_ad_detail" /\ out.row["raw_json"].ty # "dict" =>
        \A c \in CuratedSet :
            c # "is_active" \/ out.row[c] # None => SameValue(out.res.val[c], out.row[c])
\* a stored NULL is_active was shown as False
UnknownShownAsFalse ==
    /\ out.fn = "render_saved_ad_detail"
    /\ out.row["raw_json"] = None
    /\ out.row["is_active"] = None
    /\ out.res.val.is_active = PyFalse
\* a stored date and a stored 0 came back as they were
StoredDateComesBack ==
    /\ out.fn = "render_saved_ad_detail"
    /\ out.row["start_date"] = IsoDate(DayOf(Past)) /\ out.res.val.start_date = IsoDate(DayOf(Past))
    /\ out.row["total_active_time"] = PyInt(0) /\ out.res.val.total_active_time = PyInt(0)


(***************************************************************************)
(* Claim about the two spellings of the date keys                          *)
(***************************************************************************)
\* the record with every spelling of a date key carrying the value that
\* extract_selected_fields reports for it
Unaliased(it) ==
    [k \in DOMAIN it |->
        IF k \in {"start_date", "startDate"} THEN StartRaw(it)
        ELSE IF k \in {"end_date", "endDate"} THEN EndRaw(it)
        ELSE it[k]]
BothSpellingsDiffer(it, k1, k2) ==
    /\ k1 \in DOMAIN it /\ k2 \in DOMAIN it
    /\ Truthy(it[k1]) /\ Truthy(it[k2]) /\ it[k1] # it[k2]

(* C20: alias resolution is the same across the normalizer: for every record,
   also one that carries start_date and startDate, or end_date and endDate,
   with different values, compute_running_days and detect_status use the
   start and end value that extract_selected_fields reports as start_date and
   end_date. *)
C20_AliasesConsistent ==
    /\ out.fn = "compute_running_days" =>
          out.res = compute_running_days(Unaliased(inItem), nowTick)
    /\ out.fn = "detect_status" =>
          out.res = detect_status(Unaliased(inItem), nowTick)
\* the three functions agree on a record with one spelling, or with equal values
AliasesConsistentOtherwise ==
    /\ out.fn = "compute_running_days" /\ ~BothSpellingsDiffer(inItem, "start_date", "startDate")
          => out.res = compute_running_days(Unaliased(inItem), nowTick)
    /\ out.fn = "detect_status" /\ ~BothSpellingsDiffer(inItem, "end_date", "endDate")
          => out.res = detect_status(Unaliased(inItem), nowTick)
\* detect_status read endDate where extract_selected_fields reports end_date
EndAliasDisagrees ==
    /\ out.fn = "detect_status"
    /\ inItem = [endDate |-> PyInt(Future), end_date |-> PyInt(Past)]
    /\ out.res = Returned(PyStr("Active"))
    /\ extract_selected_fields(inItem).end_date = IsoDate(DayOf(Past))
\* compute_running_days read startDate where extract_selected_fields reports start_date
StartAliasDisagrees ==
    /\ out.fn = "compute_running_days"
    /\ BothSpellingsDiffer(inItem, "start_date", "startDate")
    /\ out.res # compute_running_days(Unaliased(inItem), nowTick)


(***************************************************************************)
(* A browser session over the store: Search mode with "Confirm save",      *)
(* Saved mode with a team chosen, and another instance of the application  *)
(* saving into the same database (app.py:88-136, ui.py:180-186, 507-534).  *)
(***************************************************************************)
\* the page of a run that an exception raised inside card number `drawn` ended
Aborted(mode, exc, cards, drawn, saveUi) ==
    [mode |-> mode, alert |-> "exception", msg |-> Msg("", exc, 0), bar |-> None,
     cards |-> SubSeq(cards, 1, drawn), saveUi |-> saveUi, detail |-> None, debug |-> None]

\* "Confirm save" under the save box of the card with index idx, the
\* selectbox of that card showing `table`
ClickConfirm(idx, table) ==
    /\ screen.mode = SEARCH
    /\ idx \in screen.saveUi
    /\ TotalRows < MaxRows
    /\ \E w \in SidebarSamples :
       \E r \in {SearchMode(ClearCrossMode(session, SEARCH),
                            [kind |-> "confirm", idx |-> idx, table |-> table], w, NotCalled)} :
       \E ins \in {IF r.write = None THEN [status |-> "none", rows |-> rows, seq |-> seq]
                   ELSE db_insert_team(r.write.table, r.write.ad_fields, r.write.raw_item)} :
           /\ tables' = tables \cup TeamSet
           /\ pc' = [pc EXCEPT !["p1"] = NTables]
           /\ rows' = ins.rows
           /\ seq' = ins.seq
           /\ ret' = IF r.write = None THEN Ret("init_db", TEAM_TABLES[NTables], "ok", <<>>)
                     ELSE Ret("insert", table, ins.status, <<>>)
           /\ session' = IF ins.status \in {"ok", "none"} THEN r.session
                         ELSE ClearCrossMode(session, SEARCH)
           /\ screen' = IF ins.status \in {"ok", "none"} THEN r.screen
                        ELSE Aborted(SEARCH, ins.status, r.screen.cards, idx + 1,
                                     {k \in r.screen.saveUi : k <= idx})
           /\ cache' = r.cache
           /\ UNCHANGED <<clock, apify, normVars>>

\* the key of the selection that Saved mode keeps for a team
SavedSelKey(team) == "saved_selected_idx_" \o team
SavedItems(rs) == [i \in 1..Len(rs) |-> PyDict(_db_row_to_item(rs[i]))]
\* render_saved_ads_page; rs are the rows db_fetch_team returned, ev is the
\* button click of this run; a card of this page stands for its row
DrawSavedPage(ss, ev, team, rs, shown) ==
    LET n == Len(rs)
        hit == ev.kind = "saved_detail" /\ ev.idx < shown
        ss1 == IF hit THEN MapPut(ss, SavedSelKey(team), PyInt(ev.idx)) ELSE ss
        sel_idx == Get(ss1, SavedSelKey(team))
    IN  [session |-> ss1,
         screen |->
            IF n = 0
            THEN [mode |-> SAVED, alert |-> "info", msg |-> Msg("No ads saved yet.", "", 0),
                  bar |-> None, cards |-> <<>>, saveUi |-> {}, detail |-> None,
                  debug |-> [params |-> Get(ss, "last_query_params"),
                             url |-> Get(ss, "last_query_url")],
                  team |-> team]
            ELSE IF shown < n THEN Aborted(SAVED, "TypeError", rs, shown, {}) @@ [team |-> team]
            ELSE [mode |-> SAVED, alert |-> "none", msg |-> Msg("", "", n),
                  bar |-> None, cards |-> rs, saveUi |-> {},
                  detail |-> IF sel_idx # None /\ 0 <= sel_idx.n /\ sel_idx.n < n
                             THEN rs[sel_idx.n + 1] ELSE None,
                  debug |-> [params |-> Get(ss, "last_query_params"),
                             url |-> Get(ss, "last_query_url")],
                  team |-> team]]
render_saved_ads_page(ss, ev, team, rs) ==
    DrawSavedPage(ss, ev, team, rs, CardsDrawn(SavedItems(rs)))

\* one run of app.py in Saved mode with a team chosen in the sidebar
RunSaved(team, ev) ==
    \E f \in SelectOrders(rows[team]) :
    \E r \in {render_saved_ads_page(ClearCrossMode(session, SAVED), ev, team,
                                    [i \in 1..Len(rows[team]) |-> RowToDict(rows[team][f[i]])])} :
        /\ RunInitDb
        /\ session' = r.session
        /\ screen' = r.screen
        /\ UNCHANGED <<cache, apify, normVars>>

\* a team is picked in the "Select team table" box
ChooseTeam(team) ==
    /\ screen.mode = SAVED
    /\ RunSaved(team, NoClick)
\* "See Ad Details" on the saved card with index idx
ClickSavedDetail(idx) ==
    /\ screen.mode = SAVED
    /\ "team" \in DOMAIN screen
    /\ idx < Len(screen.cards)
    /\ RunSaved(screen.team, [kind |-> "saved_detail", idx |-> idx])

\* another instance of the application (another browser session or process)
\* saves an ad into a collection
OtherInstanceSave(table, x) ==
    /\ TeamSet \subseteq tables
    /\ TotalRows < MaxRows
    /\ \E r \in {db_insert_team(table, x.ad, x.raw)} :
           /\ rows' = r.rows
           /\ seq' = r.seq
           /\ ret' = Ret("other_insert", table, r.status, <<>>)
    /\ UNCHANGED <<tables, clock, pc, normVars, appVars>>

\* what the user of this session types and what the actor answers
FlowSidebar == {w \in SidebarSamples : w.country_sel = "United States" /\ w.token = Token1}
\* an ad whose categories value is a mapping, not a list or a string
AdD == PyDict([ad_archive_id |-> PyStr("d1"), categories |-> PyDict([x |-> PyInt(1)])])
FlowUpstreams ==
    {u \in Upstreams : u.kind = "raise" \/ Len(u.items) = 2}
    \cup {[kind |-> "items", items |-> <<AdD>>]}
SaveTables == {"team1", "team2"}
OtherSaves == {x \in SaveSamples : x.raw = PyDict(EmptyMap)}

FlowInit ==
    /\ tables = {} /\ rows = NoRows /\ seq = [t \in TeamSet |-> 0]
    /\ clock = 1 /\ pc = [p \in Procs |-> 0] /\ ret = Ret("none", "", "ok", <<>>)
    /\ NormIdle
    /\ AppIdle

FlowNext ==
    \/ PageLoad
    \/ SwitchMode
    \/ \E w \in FlowSidebar, u \in FlowUpstreams : ClickFetch(w, u)
    \/ \E idx \in 0..(Len(screen.cards) - 1) : ClickDetail(idx)
    \/ \E idx \in 0..(Len(screen.cards) - 1) : ClickSave(idx)
    \/ \E idx \in 0..(Len(screen.cards) - 1), table \in SaveTables : ClickConfirm(idx, table)
    \/ \E team \in SaveTables : ChooseTeam(team)
    \/ \E idx \in 0..(Len(screen.cards) - 1) : ClickSavedDetail(idx)
    \/ \E x \in OtherSaves : OtherInstanceSave("team1", x)
    \/ TotalRows < MaxRows /\ Tick /\ screen # NoScreen

SpecFlow == FlowInit /\ [][FlowNext]_vars


(***************************************************************************)
(* Selections: selected_ad_idx in Search mode, saved_selected_idx_<team>   *)
(* in Saved mode (ui.py:241-252, 496-499, 531-534; app.py:73-82, 119-121). *)
(***************************************************************************)
SelectionKeys == SearchStateKeys \cup SavedStateKeys
\* the session key the page on screen reads its selection from
ScreenSelKey ==
    IF screen.mode = SEARCH THEN "selected_ad_idx" ELSE SavedSelKey(screen.team)
\* a detail panel on screen is the card at the stored index of the list on screen
DetailInList ==
    screen.detail # None =>
        /\ Get(session, ScreenSelKey) # None
        /\ Get(session, ScreenSelKey).n \in 0..(Len(screen.cards) - 1)
        /\ screen.detail = screen.cards[Get(session, ScreenSelKey).n + 1]
\* the step is a click on "See Ad Details" of the card with index idx
DetailClickOn(idx) == ClickDetail(idx) \/ ClickSavedDetail(idx)
DetailClick == \E idx \in 0..(Len(screen.cards) - 1) : DetailClickOn(idx)
\* the panel drawn after a click shows the record of the card that was clicked
ClickShowsClicked ==
    \A idx \in 0..(Len(screen.cards) - 1) :
        DetailClickOn(idx) /\ screen'.detail # None => screen'.detail = screen.cards[idx + 1]
\* both pages show a detail panel of the same list
SameList ==
    /\ screen'.mode = screen.mode
    /\ screen.mode = SAVED => screen'.team = screen.team
\* without a new click the panel keeps showing the record it showed
DetailStays ==
    screen.detail # None /\ screen'.detail # None /\ SameList /\ ~DetailClick
        => screen'.detail = screen.detail
\* a mode switch and a successful fetch leave no selection behind
SuccessfulFetch ==
    /\ \E w \in FlowSidebar, u \in FlowUpstreams : ClickFetch(w, u)
    /\ screen'.alert # "error"
ModeSwitched == session # EmptyMap /\ CurrentMode' # CurrentMode
SelectionsCleared ==
    ModeSwitched \/ SuccessfulFetch => DOMAIN session' \cap SelectionKeys = {}

(* C21: a detail panel is drawn only for an index inside the list on screen
   and shows the record whose "See Ad Details" was last clicked in that list;
   a mode switch or a successful fetch clears selected_ad_idx,
   save_pending_idx and every saved_selected_idx_<team>; in Saved mode the
   record shown stays the clicked one also when another instance inserts rows
   into the same collection between interactions. *)
C21_SelectionIntegrity ==
    [][DetailInList' /\ ClickShowsClicked /\ DetailStays /\ SelectionsCleared]_vars
\* the same, the Saved-mode panel being held only to the list of its own run
SelectionIntegrityInSearch ==
    [][/\ DetailInList'
       /\ screen.mode = SEARCH => ClickShowsClicked /\ DetailStays
       /\ SelectionsCleared]_vars
\* another instance saved a row after the page was drawn, and the click on the
\* first card of that page opened the new row in place of the clicked one
ShiftedByOtherSave ==
    /\ ret.op = "other_insert"
    /\ Len(screen.cards) = 1
    /\ ClickSavedDetail(0)
    /\ screen'.cards[2] = screen.cards[1]
    /\ screen'.detail = screen'.cards[1]
    /\ screen'.detail["saved_at"].ts > screen.cards[1]["saved_at"].ts
\* violated exactly when ShiftedByOtherSave can happen
OtherSaveNeverShifts == [][~ShiftedByOtherSave]_vars
\* a clicked card of the search results has its record in the panel
SearchDetailShown ==
    /\ screen.mode = SEARCH /\ Len(screen.cards) = 2
    /\ Get(session, "selected_ad_idx") = PyInt(1)
    /\ screen.detail = AdB
\* a clicked saved card has its row in the panel
SavedDetailShown ==
    /\ screen.mode = SAVED /\ screen.detail # None
    /\ Len(screen.cards) = 2 /\ screen.detail = screen.cards[2]


(***************************************************************************)
(* The save flow: "Save", then "Confirm save" (ui.py:180-186, 245-248).    *)
(***************************************************************************)
PendingIdx == Get(session, "save_pending_idx")
\* the step changed a collection and the other instance did not do it
WroteRow == rows' # rows /\ ret'.op # "other_insert"
\* the step is "Confirm save" on the card that is pending
ConfirmOnPending(idx, table) == ClickConfirm(idx, table) /\ PendingIdx = PyInt(idx)
\* the step appended one row to `table`, holding the curated fields and the
\* raw record of `card`, and changed nothing else
OneRowOf(table, card) ==
    /\ Len(rows'[table]) = Len(rows[table]) + 1
    /\ SubSeq(rows'[table], 1, Len(rows[table])) = rows[table]
    /\ \A t \in TeamSet \ {table} : rows'[t] = rows[t]
    /\ \A c \in CuratedSet :
           SameValue(RowToDict(LastRow(table))[c], extract_selected_fields(card.d)[c])
    /\ RowToDict(LastRow(table))["raw_json"] = card
\* a row is written only by "Confirm save" on the pending card
OnlyOnConfirm ==
    WroteRow => \E idx \in 0..(Len(screen.cards) - 1), table \in SaveTables :
                    ConfirmOnPending(idx, table)
\* the save box of a card that is no longer the pending one writes nothing
OnePending ==
    \A idx \in 0..(Len(screen.cards) - 1), table \in SaveTables :
        ClickConfirm(idx, table) /\ PendingIdx # PyInt(idx) => rows' = rows
\* a card becomes the pending one only by a click on its "Save"
PendingBySave ==
    Get(session', "save_pending_idx") \notin {None, PendingIdx} =>
        \E idx \in 0..(Len(screen.cards) - 1) :
            ClickSave(idx) /\ Get(session', "save_pending_idx") = PyInt(idx)
EachConfirmWrites ==
    \A idx \in 0..(Len(screen.cards) - 1), table \in SaveTables :
        ConfirmOnPending(idx, table) =>
            /\ OneRowOf(table, screen.cards[idx + 1])
            /\ "save_pending_idx" \notin DOMAIN session'
\* the same for the clicks whose insert returns; one whose insert raises
\* writes nothing and leaves the card pending
EachReturningConfirmWrites ==
    \A idx \in 0..(Len(screen.cards) - 1), table \in SaveTables :
        ConfirmOnPending(idx, table) =>
            IF ret'.status = "ok"
            THEN /\ OneRowOf(table, screen.cards[idx + 1])
                 /\ "save_pending_idx" \notin DOMAIN session'
            ELSE /\ rows' = rows
                 /\ Get(session', "save_pending_idx") = PyInt(idx)

(* C22: a row is written only when "Confirm save" is clicked on a card whose
   "Save" was clicked earlier and is still pending; each such click writes
   exactly one row, into the collection chosen on that card, holding that
   card's curated fields and raw record, and then clears the pending flag; at
   most one card is pending at any time and no later interaction repeats the
   write. *)
C22_SaveFlow ==
    [][OnlyOnConfirm /\ PendingBySave /\ OnePending /\ EachConfirmWrites]_vars
\* the save flow as the code has it
SaveFlowWhereInsertReturns ==
    [][OnlyOnConfirm /\ PendingBySave /\ OnePending /\ EachReturningConfirmWrites]_vars
\* "Confirm save" was clicked on a pending card and the insert raised
ConfirmRaised ==
    /\ ret.op = "insert" /\ ret.status = "ProgrammingError"
    /\ screen.alert = "exception"
    /\ PendingIdx = PyInt(0)
    /\ TotalRows = 0
\* a confirmed save of the second card is in team2 and nothing is pending
SavedSecondCard ==
    /\ ret.op = "insert" /\ ret.status = "ok" /\ ret.table = "team2"
    /\ Len(rows["team2"]) = 1
    /\ RowToDict(rows["team2"][1])["raw_json"] = AdB
    /\ PendingIdx = None
\* two save boxes are on screen, the pending card being the second
TwoSaveBoxes == screen.saveUi = {0, 1} /\ PendingIdx = PyInt(1)

====
